---------------------------- MODULE Spec2Model ----------------------------
(***************************************************************************)
(* Model of the statistics core of TrafficStudyViewer                       *)
(* (src/docs/js/utils/stats.js and the date helpers of dateUtils.js).       *)
(*                                                                         *)
(* Conventions                                                             *)
(*  - A JavaScript object is a TLA+ record; a property that is absent      *)
(*    (undefined) is a field that is not in the record's DOMAIN.           *)
(*  - A computed JavaScript number is an exact rational <<n, d>> in lowest *)
(*    terms (d > 0); the JavaScript value null is the empty tuple <<>>.    *)
(*    Input numbers are integers, except in the section on decimal         *)
(*    readings, where a reading is a double with its IEEE-754 rounding.    *)
(*  - A Date is the number of minutes since local midnight of January 1st  *)
(*    2024; the local calendar has no DST transition in the modelled       *)
(*    range.                                                               *)
(*  - A string is the sequence of its UTF-16 code units.                   *)
(*  - frames holds the activations of the calls that run step by step      *)
(*    (the locals of each call); tables holds the module-level bin tables. *)
(***************************************************************************)
EXTENDS Integers, Sequences, FiniteSets, TLC

VARIABLES data, extractedPercentiles, perVehicleData, values, binCounts, bins,
          called, ret, frames, tables

vars == <<data, extractedPercentiles, perVehicleData, values, binCounts, bins,
          called, ret, frames, tables>>

(***************************************************************************)
(* Bounds of the model                                                     *)
(***************************************************************************)
MaxLen == 7
MaxSpeed == 3
MaxTotal == 4
MaxExampleCount == 10
MaxRows == 2
MaxDay == 2
MaxHour == 1

(***************************************************************************)
(* JavaScript values                                                       *)
(***************************************************************************)
null == <<>>

RECURSIVE GCD(_, _)
GCD(a, b) == IF b = 0 THEN a ELSE GCD(b, a % b)

Abs(x) == IF x < 0 THEN 0 - x ELSE x

\* the number n / d (d # 0) in lowest terms
Rat(n, d) ==
    LET g == GCD(Abs(n), Abs(d))
        s == IF d < 0 THEN 0 - 1 ELSE 1
    IN  <<(s * n) \div g, (s * d) \div g>>

Num(x) == <<x, 1>>

\* the result of 0 / 0
NaN == <<0, 0>>

\* row.f || dflt for a numeric property f: absent and 0 are both falsy
OrElse(row, f, dflt) ==
    IF f \in DOMAIN row /\ row[f] # 0 THEN row[f] ELSE dflt

\* the test `if (row.f)` for a numeric property f
Truthy(row, f) == f \in DOMAIN row /\ row[f] # 0

Max2(a, b) == IF a >= b THEN a ELSE b

(***************************************************************************)
(* The bin tables of stats.js                                              *)
(***************************************************************************)
\* the value Infinity of a last bin's max: an integer above every number that a
\* run of the model compares with it
Infinity == 1000000000

SPEED_BINS_8 == <<
    [min |-> 1,  max |-> 10, label |-> "1-10"],
    [min |-> 10, max |-> 20, label |-> "10-20"],
    [min |-> 20, max |-> 30, label |-> "20-30"],
    [min |-> 30, max |-> 40, label |-> "30-40"],
    [min |-> 40, max |-> 50, label |-> "40-50"],
    [min |-> 50, max |-> 60, label |-> "50-60"],
    [min |-> 60, max |-> 70, label |-> "60-70"],
    [min |-> 70, max |-> Infinity, label |-> "70+"] >>

SPEED_BINS_12 == <<
    [min |-> 5,  max |-> 10, label |-> "5-10"],
    [min |-> 11, max |-> 15, label |-> "11-15"],
    [min |-> 16, max |-> 20, label |-> "16-20"],
    [min |-> 21, max |-> 25, label |-> "21-25"],
    [min |-> 26, max |-> 30, label |-> "26-30"],
    [min |-> 31, max |-> 35, label |-> "31-35"],
    [min |-> 36, max |-> 40, label |-> "36-40"],
    [min |-> 41, max |-> 45, label |-> "41-45"],
    [min |-> 46, max |-> 50, label |-> "46-50"],
    [min |-> 51, max |-> 55, label |-> "51-55"],
    [min |-> 56, max |-> 60, label |-> "56-60"],
    [min |-> 61, max |-> Infinity, label |-> "61+"] >>

\* the module-level state of stats.js: the two exported bin tables (lines
\* 406-433); the module declares no other top-level binding that holds data
moduleTables == [SPEED_BINS_8 |-> SPEED_BINS_8, SPEED_BINS_12 |-> SPEED_BINS_12]

(***************************************************************************)
(* calculate85thPercentile, sum, average                                   *)
(***************************************************************************)
RECURSIVE InsertSorted(_, _)
InsertSorted(s, x) ==
    IF s = <<>> THEN <<x>>
    ELSE IF x < Head(s) THEN <<x>> \o s
    ELSE <<Head(s)>> \o InsertSorted(Tail(s), x)

\* [...values].sort((a, b) => a - b): a stable ascending sort of a copy
RECURSIVE SortAsc(_)
SortAsc(s) ==
    IF s = <<>> THEN <<>>
    ELSE InsertSorted(SortAsc(SubSeq(s, 1, Len(s) - 1)), s[Len(s)])

\* Math.ceil(0.85 * n) for an array length n
Ceil85(n) == (17 * n + 19) \div 20

\* calculate85thPercentile reading the rank from the list as given
calculate85thPercentile_NoSort(vals) ==
    IF vals = null \/ Len(vals) = 0 THEN 0
    ELSE vals[Max2(0, Ceil85(Len(vals)) - 1) + 1]

\* calculate85thPercentile with Math.floor in place of Math.ceil
calculate85thPercentile_Floor(vals) ==
    IF vals = null \/ Len(vals) = 0 THEN 0
    ELSE LET sorted == SortAsc(vals)
             index == ((17 * Len(sorted)) \div 20) - 1
         IN  sorted[Max2(0, index) + 1]

\* line 15 with the sort applied to the caller's array itself
spreadSort_InPlace(vals) == [sorted |-> SortAsc(vals), values |-> SortAsc(vals)]

\* line 15, `const sorted = [...values].sort(...)`: the sorted copy, and the
\* caller's array after the statement
spreadSort(vals) == [sorted |-> SortAsc(vals), values |-> vals]

\* values is null for an absent argument; arrays are 0-based in the source
calculate85thPercentile(vals) ==
    IF vals = null \/ Len(vals) = 0 THEN 0
    ELSE LET sorted == spreadSort(vals).sorted
             index == Ceil85(Len(sorted)) - 1
         IN  sorted[Max2(0, index) + 1]

RECURSIVE sum(_)
sum(vals) ==
    IF vals = <<>> THEN 0 ELSE sum(SubSeq(vals, 1, Len(vals) - 1)) + vals[Len(vals)]

average(vals) ==
    IF vals = null \/ Len(vals) = 0 THEN Num(0)
    ELSE Rat(sum(vals), Len(vals))

(***************************************************************************)
(* Inputs of the percentile function                                       *)
(***************************************************************************)
RECURSIVE SeqsUpTo(_, _)
SeqsUpTo(S, n) ==
    IF n = 0 THEN {<<>>}
    ELSE LET shorter == SeqsUpTo(S, n - 1)
         IN  shorter \cup {Append(s, x) : s \in {t \in shorter : Len(t) = n - 1}, x \in S}

Speeds == 1..MaxSpeed

Swap(s, i, j) == [k \in 1..Len(s) |-> IF k = i THEN s[j] ELSE IF k = j THEN s[i] ELSE s[k]]

InitPct ==
    /\ values \in SeqsUpTo(Speeds, MaxLen) \cup {null}
    /\ data = <<>>
    /\ extractedPercentiles = null
    /\ perVehicleData = null
    /\ binCounts = <<>>
    /\ bins = <<>>
    /\ called = "none"
    /\ ret = null
    /\ frames = <<>>
    /\ tables = moduleTables

\* a call of calculate85thPercentile(values); a caller may pass the same
\* elements in another order: i = j keeps the order, j = i + 1 exchanges two
\* neighbours (every permutation is reached by such exchanges)
Calculate85thPercentile ==
    /\ \E i \in 1..Max2(1, Len(values)) :
         \E j \in {i, i + 1} \cap 1..Max2(1, Len(values)) :
           values' = IF Len(values) = 0 THEN values ELSE Swap(values, i, j)
    /\ ret' = calculate85thPercentile(values')
    /\ called' = "calculate85thPercentile"
    /\ UNCHANGED <<data, extractedPercentiles, perVehicleData, binCounts, bins, frames, tables>>

NextPct == Calculate85thPercentile

SpecPct == InitPct /\ [][NextPct]_vars


(***************************************************************************)
(* Claims about calculate85thPercentile                                    *)
(***************************************************************************)
\* the least integer r with r >= 0.85 * n, i.e. ceil(0.85 * n)
NearestRank(n) == CHOOSE r \in 0..n : 20 * r >= 17 * n /\ 20 * (r - 1) < 17 * n

CountLeq(s, x) == Cardinality({i \in 1..Len(s) : s[i] <= x})

CountLess(s, x) == Cardinality({i \in 1..Len(s) : s[i] < x})

\* C8: for a non-empty list of n numbers calculate85thPercentile returns the
\* element of rank ceil(0.85 * n) of the list in ascending order: the rank lies
\* in 1..n (index in 0..n-1), the result is a member of the list, at least
\* ceil(0.85 * n) elements are <= it and fewer than that are < it; for an
\* empty or absent list it returns 0.
C8_NearestRank ==
    called = "calculate85thPercentile" =>
        IF Len(values) = 0 THEN ret = 0
        ELSE LET n == Len(values)
                 r == NearestRank(n)
             IN  /\ r - 1 \in 0..(n - 1)
                 /\ \E i \in 1..n : values[i] = ret
                 /\ CountLeq(values, ret) >= r
                 /\ CountLess(values, ret) < r

\* a call on a list long enough for the rank to be below the maximum, with the
\* elements out of order
C8_Witness ==
    /\ called = "calculate85thPercentile"
    /\ Len(values) > 0
    /\ \E i \in 1..Len(values) : values[i] > ret
    /\ \E i \in 1..Len(values) : values[i] < ret
    /\ \E i \in 1..(Len(values) - 1) : values[i] > values[i + 1]

\* C9: two calls of calculate85thPercentile on lists that are permutations of
\* each other return the same result (a step re-calls it on the list with two
\* neighbours exchanged; such exchanges reach every permutation).
C9_PermutationInvariant ==
    [][(called = "calculate85thPercentile" /\ Len(values) > 0) => ret' = ret]_vars

\* a call on a list whose order matters to an unsorted read: not ascending,
\* and the result is neither the least nor the greatest element
C9_Witness ==
    /\ called = "calculate85thPercentile"
    /\ \E i \in 1..(Len(values) - 1) : values[i] > values[i + 1]
    /\ \E i \in 1..Len(values) : values[i] > ret
    /\ values[Len(values)] < ret


(***************************************************************************)
(* Speed bin tables and percentiles from pre-binned data                   *)
(***************************************************************************)
\* the two-bin table of the boundary example, bins [0,10) and [10,20)
EXAMPLE_BINS == <<
    [min |-> 0,  max |-> 10, label |-> "0-10"],
    [min |-> 10, max |-> 20, label |-> "10-20"] >>

\* binCounts.reduce((a, b) => a + b, 0)
RECURSIVE reduceAdd(_)
reduceAdd(counts) ==
    IF counts = <<>> THEN 0
    ELSE reduceAdd(SubSeq(counts, 1, Len(counts) - 1)) + counts[Len(counts)]

\* bins[i].max === Infinity ? 5 : bins[i].max - bins[i].min
binWidth(bin) == IF bin.max = Infinity THEN 5 ELSE bin.max - bin.min

\* whether the fraction n / d (d > 0) has a power of two as denominator in
\* lowest terms, i.e. is computed without rounding error in binary floating point
RECURSIVE IsPowerOfTwo(_)
IsPowerOfTwo(d) == d = 1 \/ (d % 2 = 0 /\ IsPowerOfTwo(d \div 2))

Dyadic(n, d) == IsPowerOfTwo(d \div GCD(Abs(n), d))

\* Math.floor in place of Math.round
mathRound_Floor(n, d, exact) == {n \div d}

\* Math.round of the double computed for the exact value n / d (n >= 0, d > 0):
\* the nearest integer. The doubles differ from the exact values by rounding
\* errors far smaller than the distance of a non-half value from a half, so
\* only an exact half n / d = k + 1/2 is sensitive to them: computed exactly it
\* goes up to k + 1 (Math.round), computed with a rounding error it goes to
\* k or to k + 1 as the error falls (counts [2, 1, 0, ...], 8 bins, 0.85 give
\* 15.499999999999998, rounded to 15). The result is the set of the outcomes.
mathRound(n, d, exact) ==
    LET k == n \div d
    IN  IF 2 * (n - k * d) < d THEN {k}
        ELSE IF 2 * (n - k * d) > d THEN {k + 1}
        ELSE IF exact THEN {k + 1}
        ELSE {k, k + 1}

\* the walk with positionInBin taken from the cumulative count after the bin
RECURSIVE binWalk_FromCumulative(_, _, _, _, _, _, _)
binWalk_FromCumulative(counts, table, total, pn, pd, i, cumulative) ==
    IF i > Len(counts) THEN {table[Len(table)].min + 2}
    ELSE LET cum == cumulative + counts[i]
         IN  IF cum * pd >= total * pn
             THEN LET posN == total * pn - cum * pd
                      w == binWidth(table[i])
                  IN  IF counts[i] > 0
                      THEN mathRound(table[i].min * pd * counts[i] + posN * w,
                                     pd * counts[i],
                                     Dyadic(total * pn, pd) /\ Dyadic(posN, pd * counts[i]))
                      ELSE mathRound(table[i].min, 1, TRUE)
             ELSE binWalk_FromCumulative(counts, table, total, pn, pd, i + 1, cum)

\* The walk of calculate85thFromBins / calculate50thFromBins from bin i (1-based
\* here) with `cumulative` the counts before bin i; target = total * pn / pd.
\* `cumulative >= target` compares an integer with total * 0.85 (or * 0.5),
\* which the double product decides as the exact one does.
RECURSIVE binWalk(_, _, _, _, _, _, _)
binWalk(counts, table, total, pn, pd, i, cumulative) ==
    IF i > Len(counts) THEN {table[Len(table)].min + 2}
    ELSE LET cum == cumulative + counts[i]
         IN  IF cum * pd >= total * pn
             THEN LET prevCumulative == cum - counts[i]
                      \* positionInBin = posN / pd
                      posN == total * pn - prevCumulative * pd
                      w == binWidth(table[i])
                  IN  IF counts[i] > 0
                      THEN mathRound(table[i].min * pd * counts[i] + posN * w,
                                     pd * counts[i],
                                     Dyadic(total * pn, pd) /\ Dyadic(posN, pd * counts[i]))
                      ELSE mathRound(table[i].min, 1, TRUE)
             ELSE binWalk(counts, table, total, pn, pd, i + 1, cum)

\* the body shared by calculate85thFromBins (pn / pd = 0.85) and
\* calculate50thFromBins (0.50): the set of the values the call can return
percentileFromBins(counts, table, pn, pd) ==
    LET total == reduceAdd(counts)
    IN  IF total = 0 THEN {0}
        ELSE binWalk(counts, table, total, pn, pd, 1, 0)

\* the median taken at 0.95 of the total
calculate50thFromBins_High(counts, table) == percentileFromBins(counts, table, 19, 20)

\* lines 474-476 (504-506): the bin (1-based here) at which the walk from bin i
\* returns, or 0 when the loop ends without returning and the fallback of line
\* 488 (516) is taken
RECURSIVE stopBin(_, _, _, _, _, _)
stopBin(counts, total, pn, pd, i, cumulative) ==
    IF i > Len(counts) THEN 0
    ELSE LET cum == cumulative + counts[i]
         IN  IF cum * pd >= total * pn THEN i
             ELSE stopBin(counts, total, pn, pd, i + 1, cum)

calculate85thFromBins(counts, table) == percentileFromBins(counts, table, 17, 20)

calculate50thFromBins(counts, table) == percentileFromBins(counts, table, 1, 2)

(***************************************************************************)
(* Inputs of the binned percentiles                                        *)
(***************************************************************************)
\* the vectors of n counts >= 0 whose sum is at most total
RECURSIVE CountVectors(_, _)
CountVectors(n, total) ==
    IF n = 0 THEN {<<>>}
    ELSE UNION {{Append(v, k) : v \in CountVectors(n - 1, total - k)} : k \in 0..total}

InitBins ==
    /\ \/ bins = SPEED_BINS_8 /\ binCounts \in CountVectors(Len(SPEED_BINS_8), MaxTotal)
       \/ bins = SPEED_BINS_12 /\ binCounts \in CountVectors(Len(SPEED_BINS_12), MaxTotal)
       \/ bins = EXAMPLE_BINS /\ binCounts \in [1..2 -> 0..MaxExampleCount]
    /\ values = null
    /\ data = <<>>
    /\ extractedPercentiles = null
    /\ perVehicleData = null
    /\ called = "none"
    /\ ret = null
    /\ frames = <<>>
    /\ tables = moduleTables

Calculate85thFromBins ==
    /\ ret' \in calculate85thFromBins(binCounts, bins)
    /\ called' = "calculate85thFromBins"
    /\ UNCHANGED <<data, extractedPercentiles, perVehicleData, values, binCounts, bins,
                   frames, tables>>

Calculate50thFromBins ==
    /\ ret' \in calculate50thFromBins(binCounts, bins)
    /\ called' = "calculate50thFromBins"
    /\ UNCHANGED <<data, extractedPercentiles, perVehicleData, values, binCounts, bins,
                   frames, tables>>

NextBins == Calculate85thFromBins \/ Calculate50thFromBins

SpecBins == InitBins /\ [][NextBins]_vars


(***************************************************************************)
(* Claims about the binned percentiles                                     *)
(***************************************************************************)
\* cumulative count of the bins 1..i
CumulativeCount(i) == reduceAdd(SubSeq(binCounts, 1, i))

MinutesPerHour == 60

HoursPerDay == 24

MinutesPerDay == MinutesPerHour * HoursPerDay

\* the lengths of the months of 2024
MonthLengths == <<31, 29, 31, 30, 31, 30, 31, 31, 30, 31, 30, 31>>

\* getMonth() (0-based) of the day with 0-based day-of-year doy, from month m on
RECURSIVE monthFrom(_, _)
monthFrom(doy, m) ==
    IF doy < MonthLengths[m + 1] THEN m ELSE monthFrom(doy - MonthLengths[m + 1], m + 1)

RECURSIVE dateFrom(_, _)
dateFrom(doy, m) ==
    IF doy < MonthLengths[m + 1] THEN doy + 1 ELSE dateFrom(doy - MonthLengths[m + 1], m + 1)

getFullYear(dt) == 2024

getMonth(dt) == monthFrom(dt \div MinutesPerDay, 0)

getDate(dt) == dateFrom(dt \div MinutesPerDay, 0)

getHours(dt) == (dt \div MinutesPerHour) % HoursPerDay

\* new Date(year, month, date): local midnight of the day of dt
startOfDay(dt) == (dt \div MinutesPerDay) * MinutesPerDay

\* new Date(year, month, date, hour): the start of the hour of dt
startOfHour(dt) == (dt \div MinutesPerHour) * MinutesPerHour

\* String(n) for n >= 0, as code units ("0" is 48)
RECURSIVE String(_)
String(n) == IF n < 10 THEN <<48 + n>> ELSE String(n \div 10) \o <<48 + (n % 10)>>

\* s.padStart(len, '0')
RECURSIVE padStart(_, _)
padStart(str, len) == IF Len(str) >= len THEN str ELSE padStart(<<48>> \o str, len)

\* the code unit of "-"
Hyphen == <<45>>

\* `${year}-${month}-${day}` with month and day padded to two digits
getDateKey(dt) ==
    String(getFullYear(dt)) \o Hyphen \o padStart(String(getMonth(dt) + 1), 2)
        \o Hyphen \o padStart(String(getDate(dt)), 2)

\* `${dateStr}-${String(hour).padStart(2, '0')}`
getHourKey(dt) == getDateKey(dt) \o Hyphen \o padStart(String(getHours(dt)), 2)

\* a < b for strings in code unit order: the order of the default sort() and,
\* for the keys built above (digits and hyphens), of localeCompare
RECURSIVE StrLessFrom(_, _, _)
StrLessFrom(a, b, i) ==
    IF i > Len(b) THEN FALSE
    ELSE IF i > Len(a) THEN TRUE
    ELSE IF a[i] # b[i] THEN a[i] < b[i]
    ELSE StrLessFrom(a, b, i + 1)

StrLess(a, b) == StrLessFrom(a, b, 1)

(***************************************************************************)
(* aggregateDaily                                                          *)
(***************************************************************************)
\* the fresh accumulator of lines 73-82 and 110-119
newDailyAgg(key) ==
    [date |-> key, vehicles |-> 0, violators |-> 0, sum_speeds |-> 0,
     peak_speed |-> 0, speeds |-> <<>>, p85_values |-> <<>>]

\* accumulate with `row.vehicles || 1`
accumulate_DefaultOne(agg, row) ==
    LET withSpeed == Truthy(row, "avg_speed")
    IN  [agg EXCEPT
            !.vehicles = @ + OrElse(row, "vehicles", 1),
            !.violators = @ + OrElse(row, "violators", 0),
            !.sum_speeds = IF withSpeed
                           THEN @ + row.avg_speed * OrElse(row, "vehicles", 1) ELSE @,
            !.speeds = IF withSpeed THEN Append(@, row.avg_speed) ELSE @,
            !.peak_speed = IF Truthy(row, "peak_speed") THEN Max2(@, row.peak_speed) ELSE @,
            !.p85_values = IF Truthy(row, "p85") /\ row.p85 > 0
                           THEN Append(@, row.p85) ELSE @]

\* accumulate with the peak speed of the latest record in place of the maximum
accumulate_LastPeak(agg, row) ==
    LET withSpeed == Truthy(row, "avg_speed")
        withPeak == Truthy(row, "peak_speed")
        withP85 == Truthy(row, "p85") /\ row.p85 > 0
    IN  [agg EXCEPT
            !.vehicles = @ + OrElse(row, "vehicles", 0),
            !.violators = @ + OrElse(row, "violators", 0),
            !.sum_speeds = IF withSpeed
                           THEN @ + row.avg_speed * OrElse(row, "vehicles", 1) ELSE @,
            !.speeds = IF withSpeed THEN Append(@, row.avg_speed) ELSE @,
            !.peak_speed = IF withPeak THEN row.peak_speed ELSE @,
            !.p85_values = IF withP85 THEN Append(@, row.p85) ELSE @]

\* lines 85-101 and 211-227: one row added to its accumulator
accumulate(agg, row) ==
    LET withSpeed == Truthy(row, "avg_speed")
        withPeak == Truthy(row, "peak_speed")
        withP85 == Truthy(row, "p85") /\ row.p85 > 0
    IN  [agg EXCEPT
            !.vehicles = @ + OrElse(row, "vehicles", 0),
            !.violators = @ + OrElse(row, "violators", 0),
            !.sum_speeds = IF withSpeed
                           THEN @ + row.avg_speed * OrElse(row, "vehicles", 1) ELSE @,
            !.speeds = IF withSpeed THEN Append(@, row.avg_speed) ELSE @,
            !.peak_speed = IF withPeak THEN Max2(@, row.peak_speed) ELSE @,
            !.p85_values = IF withP85 THEN Append(@, row.p85) ELSE @]

\* grouped is a Map: the sequence of its [key, agg] entries in insertion order
mapHas(grouped, key) == \E i \in 1..Len(grouped) : grouped[i].key = key

mapIndex(grouped, key) == CHOOSE i \in 1..Len(grouped) : grouped[i].key = key

mapGet(grouped, key) == grouped[mapIndex(grouped, key)].agg

mapSet(grouped, key, agg) ==
    IF mapHas(grouped, key)
    THEN [grouped EXCEPT ![mapIndex(grouped, key)].agg = agg]
    ELSE Append(grouped, [key |-> key, agg |-> agg])

\* lines 56-60: the locals of a call of aggregateDaily before its loop;
\* minDate and maxDate are <<>> for null and <<date>> otherwise
dailyStart == [grouped |-> <<>>, minDate |-> <<>>, maxDate |-> <<>>]

\* the loop of aggregateDaily counting only the first record of each date
dailyStep_KeepFirst(st, row) ==
    IF "datetime" \notin DOMAIN row THEN st
    ELSE LET key == getDateKey(row.datetime)
             dt == row.datetime
         IN  IF mapHas(st.grouped, key) THEN st
             ELSE [grouped |-> mapSet(st.grouped, key, accumulate(newDailyAgg(key), row)),
                   minDate |-> IF st.minDate = <<>> \/ dt < st.minDate[1]
                               THEN <<startOfDay(dt)>> ELSE st.minDate,
                   maxDate |-> IF st.maxDate = <<>> \/ dt > st.maxDate[1]
                               THEN <<startOfDay(dt)>> ELSE st.maxDate]

\* lines 63-101: one pass of the loop, on the locals st and the record row
dailyStep(st, row) ==
    IF "datetime" \notin DOMAIN row THEN st
    ELSE LET key == getDateKey(row.datetime)
             dt == row.datetime
             g1 == IF mapHas(st.grouped, key) THEN st.grouped
                   ELSE mapSet(st.grouped, key, newDailyAgg(key))
         IN  [grouped |-> mapSet(g1, key, accumulate(mapGet(g1, key), row)),
              minDate |-> IF st.minDate = <<>> \/ dt < st.minDate[1]
                          THEN <<startOfDay(dt)>> ELSE st.minDate,
              maxDate |-> IF st.maxDate = <<>> \/ dt > st.maxDate[1]
                          THEN <<startOfDay(dt)>> ELSE st.maxDate]

\* lines 62-102: the locals [grouped, minDate, maxDate] after the rows 1..n
RECURSIVE dailyLoop(_, _)
dailyLoop(rows, n) ==
    IF n = 0 THEN dailyStart ELSE dailyStep(dailyLoop(rows, n - 1), rows[n])

\* lines 107-122: the while loop from `current` in steps of `step` minutes
\* (setDate(getDate() + 1): the same time on the next day). The slots visited
\* have distinct keys, so the loop appends, in the order of the visit, the
\* slots whose key the Map lacked before the loop.
visited(current, maxDate, step) ==
    IF current > maxDate THEN <<>>
    ELSE [k \in 1..((maxDate - current) \div step + 1) |-> current + (k - 1) * step]

fillDays(grouped, current, maxDate) ==
    LET missing == SelectSeq(visited(current, maxDate, MinutesPerDay),
                             LAMBDA t : ~mapHas(grouped, getDateKey(t)))
    IN  grouped \o [k \in 1..Len(missing) |->
                       [key |-> getDateKey(missing[k]),
                        agg |-> newDailyAgg(getDateKey(missing[k]))]]

\* resolveP85 with the avg_speed percentile consulted before the direct values
resolveP85_SpeedsFirst(agg, dateKey, ext) ==
    LET first == IF ext # null /\ dateKey \in DOMAIN ext
                 THEN IF Truthy(ext[dateKey], "p85") THEN Num(ext[dateKey].p85) ELSE null
                 ELSE null
        second == IF first = null /\ Len(agg.speeds) > 0
                  THEN Num(calculate85thPercentile(agg.speeds)) ELSE first
    IN  IF second = null /\ Len(agg.p85_values) > 0
        THEN average(agg.p85_values) ELSE second

\* resolveP85 with the first two sources exchanged
resolveP85_DirectFirst(agg, dateKey, ext) ==
    LET first == IF Len(agg.p85_values) > 0 THEN average(agg.p85_values) ELSE null
        second == IF first = null /\ ext # null /\ dateKey \in DOMAIN ext
                  THEN IF Truthy(ext[dateKey], "p85") THEN Num(ext[dateKey].p85) ELSE null
                  ELSE first
    IN  IF second = null /\ Len(agg.speeds) > 0
        THEN Num(calculate85thPercentile(agg.speeds)) ELSE second

\* lines 129-142 and 267-281: the p85 of an accumulator whose date key is dateKey
resolveP85(agg, dateKey, ext) ==
    LET first == IF ext # null /\ dateKey \in DOMAIN ext
                 THEN IF Truthy(ext[dateKey], "p85") THEN Num(ext[dateKey].p85) ELSE null
                 ELSE null
        second == IF first = null /\ Len(agg.p85_values) > 0
                  THEN average(agg.p85_values) ELSE first
    IN  IF second = null /\ Len(agg.speeds) > 0
        THEN Num(calculate85thPercentile(agg.speeds)) ELSE second

\* derived with `agg.peak_speed` reported as it stands, without `|| null`
derived_ZeroPeak(agg, p85Value) ==
    [vehicles |-> agg.vehicles,
     violators |-> agg.violators,
     non_speeders |-> agg.vehicles - agg.violators,
     pct_speeders |-> IF agg.vehicles > 0
                      THEN Rat(agg.violators * 100, agg.vehicles) ELSE null,
     avg_speed |-> IF agg.vehicles > 0 THEN Rat(agg.sum_speeds, agg.vehicles) ELSE null,
     peak_speed |-> Num(agg.peak_speed),
     p85 |-> p85Value]

\* derived with pct_speeders 0 rather than null for an empty bucket
derived_ZeroPct(agg, p85Value) ==
    [vehicles |-> agg.vehicles,
     violators |-> agg.violators,
     non_speeders |-> agg.vehicles - agg.violators,
     pct_speeders |-> IF agg.vehicles > 0
                      THEN Rat(agg.violators * 100, agg.vehicles) ELSE Num(0),
     avg_speed |-> IF agg.vehicles > 0 THEN Rat(agg.sum_speeds, agg.vehicles) ELSE null,
     peak_speed |-> IF agg.peak_speed # 0 THEN Num(agg.peak_speed) ELSE null,
     p85 |-> p85Value]

\* lines 144-154 and 283-293: the derived values shared by both aggregators
derived(agg, p85Value) ==
    [vehicles |-> agg.vehicles,
     violators |-> agg.violators,
     non_speeders |-> agg.vehicles - agg.violators,
     pct_speeders |-> IF agg.vehicles > 0
                      THEN Rat(agg.violators * 100, agg.vehicles) ELSE null,
     avg_speed |-> IF agg.vehicles > 0 THEN Rat(agg.sum_speeds, agg.vehicles) ELSE null,
     peak_speed |-> IF agg.peak_speed # 0 THEN Num(agg.peak_speed) ELSE null,
     p85 |-> p85Value]

\* lines 144-154: the result object of a daily accumulator (labels are display
\* strings and are left out)
dailyResult(agg, ext) ==
    [date |-> agg.date] @@ derived(agg, resolveP85(agg, agg.date, ext))

\* aggregateDaily without line 158
sortByDate_Unsorted(results) == results

\* results.sort((a, b) => a.date.localeCompare(b.date)); the dates of the
\* results are distinct, being the keys of a Map
sortByDate(results) == SortSeq(results, LAMBDA a, b : StrLess(a.date, b.date))

\* lines 104-160: the rest of aggregateDaily after its loop, on the locals st
dailyFinish(st, ext) ==
    LET filled == IF st.minDate # <<>> /\ st.maxDate # <<>>
                  THEN fillDays(st.grouped, st.minDate[1], st.maxDate[1])
                  ELSE st.grouped
        results == [i \in 1..Len(filled) |-> dailyResult(filled[i].agg, ext)]
    IN  sortByDate(results)

aggregateDaily(rows, ext) == dailyFinish(dailyLoop(rows, Len(rows)), ext)


(***************************************************************************)
(* aggregateHourly                                                         *)
(***************************************************************************)
\* the fresh accumulator of lines 198-208 and 239-249
newHourlyAgg(datetime) ==
    [datetime |-> datetime, vehicles |-> 0, violators |-> 0, sum_speeds |-> 0,
     peak_speed |-> 0, count |-> 0, speeds |-> <<>>, p85_values |-> <<>>]

\* lines 170-174: the locals of a call of aggregateHourly before its loop
hourlyStart == [grouped |-> <<>>, minDatetime |-> <<>>, maxDatetime |-> <<>>]

\* lines 184-227: one pass of the loop, on the locals st and the record row
hourlyStep(st, row) ==
    IF "datetime" \notin DOMAIN row THEN st
    ELSE LET dt == row.datetime
             key == getHourKey(dt)
             hourDatetime == startOfHour(dt)
             g1 == IF mapHas(st.grouped, key) THEN st.grouped
                   ELSE mapSet(st.grouped, key, newHourlyAgg(hourDatetime))
             agg == accumulate(mapGet(g1, key), row)
         IN  [grouped |-> mapSet(g1, key, [agg EXCEPT !.count = @ + 1]),
              minDatetime |-> IF st.minDatetime = <<>> \/ hourDatetime < st.minDatetime[1]
                              THEN <<hourDatetime>> ELSE st.minDatetime,
              maxDatetime |-> IF st.maxDatetime = <<>> \/ hourDatetime > st.maxDatetime[1]
                              THEN <<hourDatetime>> ELSE st.maxDatetime]

\* lines 183-228: the locals [grouped, minDatetime, maxDatetime] after rows 1..n
RECURSIVE hourlyLoop(_, _)
hourlyLoop(rows, n) ==
    IF n = 0 THEN hourlyStart ELSE hourlyStep(hourlyLoop(rows, n - 1), rows[n])

\* aggregateHourly without lines 231-253
fillHours_None(grouped, current, maxDatetime) == grouped

\* lines 233-252: the while loop from `current`; setHours(getHours() + 1) is
\* one hour later
fillHours(grouped, current, maxDatetime) ==
    LET missing == SelectSeq(visited(current, maxDatetime, MinutesPerHour),
                             LAMBDA t : ~mapHas(grouped, getHourKey(t)))
        keys == [k \in 1..Len(missing) |-> getHourKey(missing[k])]
    IN  grouped \o [k \in 1..Len(missing) |->
                       [key |-> keys[k], agg |-> newHourlyAgg(missing[k])]]

\* Array.from(grouped.keys()).sort() followed by grouped.get(key) for each key
\* in turn: the entries of the Map in ascending code unit order of their keys
\* (the keys of a Map are distinct)
sortedEntries(grouped) == SortSeq(grouped, LAMBDA a, b : StrLess(a.key, b.key))

\* hourlyResult with the percentile map read under the accumulator's hour key
hourlyResult_ByHourKey(agg, ext) ==
    [datetime |-> agg.datetime]
        @@ derived(agg, resolveP85(agg, getHourKey(agg.datetime), ext))

\* lines 260-293: the result object of an hourly accumulator; the percentile
\* map is read under the date part of the accumulator's datetime
hourlyResult(agg, ext) ==
    [datetime |-> agg.datetime]
        @@ derived(agg, resolveP85(agg, getDateKey(agg.datetime), ext))

\* lines 230-296: the rest of aggregateHourly after its loop, on the locals st
hourlyFinish(st, ext) ==
    LET filled == IF st.minDatetime # <<>> /\ st.maxDatetime # <<>>
                  THEN fillHours(st.grouped, st.minDatetime[1], st.maxDatetime[1])
                  ELSE st.grouped
        sorted == sortedEntries(filled)
    IN  [i \in 1..Len(sorted) |-> hourlyResult(sorted[i].agg, ext)]

aggregateHourly(rows, ext) == hourlyFinish(hourlyLoop(rows, Len(rows)), ext)

(***************************************************************************)
(* Inputs of the aggregators                                               *)
(***************************************************************************)
\* the day of the year (0-based) of the earliest record: September 29th
FirstDay == 272

MaxMinute == 30

\* the Date at `minute` minutes past `hour` on the day `day` days after FirstDay
DateAt(day, hour, minute) ==
    (FirstDay + day) * MinutesPerDay + hour * MinutesPerHour + minute

\* the last hour of a day
LastHour == HoursPerDay - 1

\* the timestamps of the records: the last hours of the first day and the first
\* hours of the last day
Times ==
    {DateAt(0, LastHour - h, 0) : h \in {0, MaxHour}}
        \cup {DateAt(MaxDay, h, 0) : h \in {0, MaxHour}}

\* the timestamps of the collections that vary the percentile evidence: two
\* hours of the first day, one of them entered off the hour, and the last day
PercentileTimes ==
    {DateAt(0, LastHour - MaxHour, 0), DateAt(0, LastHour, MaxMinute), DateAt(MaxDay, 0, 0)}

\* Each record collection varies one group of properties.
\* Counts and timestamps (a record may lack its datetime, vehicles, violators):
VolumeRows ==
    LET counts == {<<>>, [vehicles |-> 3], [vehicles |-> 2, violators |-> 1]}
    IN  counts \cup {[datetime |-> t] @@ c : t \in Times, c \in counts}

\* percentile evidence: direct p85 (0 is "absent") and avg_speed
PercentileRows ==
    LET evidence == {[p85 |-> 3], [p85 |-> 5],
                     [p85 |-> 0, avg_speed |-> 2], [p85 |-> 0, avg_speed |-> 4]}
    IN  {[datetime |-> t, vehicles |-> 1] @@ e : t \in PercentileTimes, e \in evidence}

\* average speeds and their weights, in one hour
SpeedRows ==
    LET times == {DateAt(0, 0, 0), DateAt(0, 0, MaxMinute)}
    IN  {[datetime |-> t, vehicles |-> v] : t \in times, v \in {0, 3}}
        \cup {[datetime |-> t, vehicles |-> v, avg_speed |-> a] :
                  t \in times, v \in {0, 3}, a \in {2, 4}}

\* peak speeds
PeakRows ==
    LET times == {DateAt(0, 0, 0), DateAt(0, MaxHour, 0)}
    IN  {[datetime |-> t, vehicles |-> 1] : t \in times}
        \cup {[datetime |-> t, vehicles |-> 1, peak_speed |-> k] : t \in times, k \in {0, 5, 6}}

\* the external percentile maps: none, or one entry for the first day or the
\* day after it (a day without records); the p85 of the first day's entry may
\* also be 0 or missing
DayKey(day) == getDateKey(DateAt(day, 0, 0))

ExternalMaps ==
    {null}
    \cup {[k \in {DayKey(d)} |-> [p50 |-> 6, p85 |-> 7]] : d \in {0, 1}}
    \cup {[k \in {DayKey(0)} |-> [p50 |-> 6, p85 |-> 0]], [k \in {DayKey(0)} |-> [p50 |-> 6]]}

InitAgg ==
    /\ \/ data \in SeqsUpTo(VolumeRows, MaxRows) /\ extractedPercentiles = null
       \/ data \in SeqsUpTo(PercentileRows, MaxRows) /\ extractedPercentiles \in ExternalMaps
       \/ data \in SeqsUpTo(SpeedRows, MaxRows) /\ extractedPercentiles = null
       \/ data \in SeqsUpTo(PeakRows, MaxRows) /\ extractedPercentiles = null
    /\ perVehicleData = null
    /\ values = null
    /\ binCounts = <<>>
    /\ bins = <<>>
    /\ called = "none"
    /\ ret = null
    /\ frames = <<>>
    /\ tables = moduleTables

\* one call of an aggregator on the collection, per behaviour
AggregateDaily ==
    /\ called = "none"
    /\ ret' = aggregateDaily(data, extractedPercentiles)
    /\ called' = "aggregateDaily"
    /\ UNCHANGED <<data, extractedPercentiles, perVehicleData, values, binCounts, bins,
                   frames, tables>>

AggregateHourly ==
    /\ called = "none"
    /\ ret' = aggregateHourly(data, extractedPercentiles)
    /\ called' = "aggregateHourly"
    /\ UNCHANGED <<data, extractedPercentiles, perVehicleData, values, binCounts, bins,
                   frames, tables>>

NextAgg == AggregateDaily \/ AggregateHourly

SpecAgg == InitAgg /\ [][NextAgg]_vars


(***************************************************************************)
(* Claims about aggregateDaily and aggregateHourly                         *)
(***************************************************************************)
Aggregated == called \in {"aggregateDaily", "aggregateHourly"}

\* the records with a timestamp
Stamped == {i \in 1..Len(data) : "datetime" \in DOMAIN data[i]}

\* the day of the year written in a date key "2024-MM-DD", read back digit by
\* digit
RECURSIVE DaysBeforeMonth(_)
DaysBeforeMonth(m) == IF m = 1 THEN 0 ELSE DaysBeforeMonth(m - 1) + MonthLengths[m - 1]

DayOfKey(key) ==
    DaysBeforeMonth((key[6] - 48) * 10 + (key[7] - 48))
        + (key[9] - 48) * 10 + (key[10] - 48) - 1

\* the slot of a timestamp and of a bucket: the number of its calendar day
\* (daily) or of its hour (hourly)
SlotOf(t) ==
    IF called = "aggregateDaily" THEN t \div MinutesPerDay ELSE t \div MinutesPerHour

BucketSlot(b) ==
    IF called = "aggregateDaily" THEN DayOfKey(b.date) ELSE b.datetime \div MinutesPerHour

\* the calendar day of a bucket and the key of the external map for that day
BucketDay(b) ==
    IF called = "aggregateDaily" THEN DayOfKey(b.date) ELSE b.datetime \div MinutesPerDay

BucketDateKey(b) == getDateKey(BucketDay(b) * MinutesPerDay)

\* the records that fell into bucket b
RowsIn(b) == {i \in Stamped : SlotOf(data[i].datetime) = BucketSlot(b)}

HasEntry(b) ==
    extractedPercentiles # null /\ BucketDateKey(b) \in DOMAIN extractedPercentiles

Entry(b) == extractedPercentiles[BucketDateKey(b)]

\* an entry whose p85 is neither 0 nor missing
HasExternalP85(b) == HasEntry(b) /\ "p85" \in DOMAIN Entry(b) /\ Entry(b).p85 # 0

DirectP85In(b) == {i \in RowsIn(b) : "p85" \in DOMAIN data[i] /\ data[i].p85 > 0}

SpeedsIn(b) == {i \in RowsIn(b) : "avg_speed" \in DOMAIN data[i] /\ data[i].avg_speed # 0}

Buckets == {ret[i] : i \in 1..Len(ret)}

\* C1 as claimed: for every bucket whose date has an entry in the external
\* map, p85 is that entry's p85 whatever the bucket collected, also when the
\* entry's p85 is 0 or missing (the bucket then shows 0 or no value, never a
\* value drawn from its own records).
C1_AsClaimed ==
    Aggregated =>
        \A b \in Buckets :
            HasEntry(b) =>
                IF HasExternalP85(b) THEN b.p85 = Num(Entry(b).p85)
                ELSE b.p85 \in {null, Num(0)}

\* C1 amended: for every bucket whose date has an entry with a non-zero p85,
\* p85 is that entry's p85 whatever the bucket collected; an entry whose p85 is
\* 0 or missing is passed over, and p85 is then null exactly when the bucket has
\* neither a positive direct p85 nor an avg_speed.
C1_ExternalFirst ==
    Aggregated =>
        \A b \in Buckets :
            HasEntry(b) =>
                IF HasExternalP85(b) THEN b.p85 = Num(Entry(b).p85)
                ELSE (b.p85 = null) <=> (DirectP85In(b) = {} /\ SpeedsIn(b) = {})

\* a bucket with direct p85 values and an avg_speed of its own on a date whose
\* entry has a p85
C1_Witness ==
    /\ Aggregated
    /\ \E b \in Buckets :
          /\ HasExternalP85(b)
          /\ DirectP85In(b) # {}
          /\ SpeedsIn(b) # {}
          /\ \A i \in DirectP85In(b) : data[i].p85 # Entry(b).p85
          /\ b.p85 = Num(Entry(b).p85)

\* C2: for a non-empty set of timestamped records the aggregators return
\* exactly one bucket for every day (hour) between the earliest and the latest
\* observed slot and none outside: (max slot - min slot) + 1 buckets, the
\* first and the last of which hold at least one record.
C2_ContiguousRange ==
    (Aggregated /\ Stamped # {}) =>
        LET slots == {SlotOf(data[i].datetime) : i \in Stamped}
            lo == CHOOSE x \in slots : \A y \in slots : x <= y
            hi == CHOOSE x \in slots : \A y \in slots : x >= y
        IN  /\ Len(ret) = (hi - lo) + 1
            /\ \A x \in lo..hi : Cardinality({i \in 1..Len(ret) : BucketSlot(ret[i]) = x}) = 1
            /\ \A i \in 1..Len(ret) : BucketSlot(ret[i]) \in lo..hi
            /\ RowsIn(ret[1]) # {}
            /\ RowsIn(ret[Len(ret)]) # {}

\* records supplied latest first, with empty slots between them
C2_Witness ==
    /\ Aggregated
    /\ Len(data) >= 2
    /\ \A i \in 1..Len(data) : i \in Stamped
    /\ data[1].datetime > data[2].datetime
    /\ \E i \in 1..Len(ret) : RowsIn(ret[i]) = {}
    /\ Len(ret) >= 3

\* C3 as claimed: every bucket into which no record fell has vehicles = 0,
\* violators = 0 and null avg_speed, peak_speed and p85, also when the external
\* map has an entry for its date.
C3_AsClaimed ==
    Aggregated =>
        \A b \in Buckets :
            RowsIn(b) = {} =>
                /\ b.vehicles = 0
                /\ b.violators = 0
                /\ b.avg_speed = null
                /\ b.peak_speed = null
                /\ b.p85 = null

\* C3 amended: every bucket into which no record fell has vehicles = 0,
\* violators = 0, null avg_speed and peak_speed, and a null p85 unless the
\* external map has an entry with a non-zero p85 for its date, which is then
\* its p85.
C3_GapBuckets ==
    Aggregated =>
        \A b \in Buckets :
            RowsIn(b) = {} =>
                /\ b.vehicles = 0
                /\ b.violators = 0
                /\ b.avg_speed = null
                /\ b.peak_speed = null
                /\ b.p85 = IF HasExternalP85(b) THEN Num(Entry(b).p85) ELSE null

\* an empty bucket on a date that has an entry, and one on a date without
C3_Witness ==
    /\ Aggregated
    /\ \E b \in Buckets : RowsIn(b) = {} /\ HasExternalP85(b) /\ b.p85 # null
    /\ \E b \in Buckets : RowsIn(b) = {} /\ ~HasEntry(b)

VehicleCount(i) == IF "vehicles" \in DOMAIN data[i] THEN data[i].vehicles ELSE 0

RECURSIVE RecordVehicles(_)
RecordVehicles(S) ==
    IF S = {} THEN 0
    ELSE LET i == CHOOSE j \in S : TRUE IN VehicleCount(i) + RecordVehicles(S \ {i})

RECURSIVE BucketVehicles(_)
BucketVehicles(n) == IF n = 0 THEN 0 ELSE ret[n].vehicles + BucketVehicles(n - 1)

\* C4: the vehicles of all buckets sum to the vehicle_count of the records that
\* have a timestamp, an absent vehicle_count counting 0; records without a
\* timestamp contribute to no bucket.
C4_VehicleSum ==
    Aggregated =>
        BucketVehicles(Len(ret)) = RecordVehicles(Stamped)

\* a record with vehicles but no timestamp next to one with vehicles and a
\* timestamp
C4_Witness ==
    /\ called = "aggregateHourly"
    /\ \E i \in 1..Len(data) : i \notin Stamped /\ VehicleCount(i) > 0
    /\ \E i \in Stamped : VehicleCount(i) > 0
    /\ BucketVehicles(Len(ret)) > 0

\* C5: every bucket has non_speeders = vehicles - violators, and pct_speeders
\* null exactly when vehicles = 0 and else equal to violators / vehicles * 100.
C5_Derived ==
    Aggregated =>
        \A b \in Buckets :
            /\ b.non_speeders = b.vehicles - b.violators
            /\ (b.pct_speeders = null) <=> (b.vehicles = 0)
            /\ b.vehicles # 0 =>
                  b.pct_speeders[1] * b.vehicles = 100 * b.violators * b.pct_speeders[2]

\* a bucket with violators among its vehicles next to an empty one
C5_Witness ==
    /\ called = "aggregateDaily"
    /\ \E b \in Buckets : b.vehicles > 0 /\ b.violators > 0 /\ b.pct_speeders = Num(50)
    /\ \E b \in Buckets : b.vehicles = 0 /\ RowsIn(b) = {}


(***************************************************************************)
(* calculateStats and calculateReportStatistics                            *)
(***************************************************************************)
MaxPv == 2

\* the totals with every row entering the divisor of the average speed
RECURSIVE statsLoop_CountAll(_, _)
statsLoop_CountAll(rows, n) ==
    IF n = 0
    THEN [totalVehicles |-> 0, totalViolators |-> 0, sumSpeeds |-> 0, speedCount |-> 0,
          peakSpeed |-> 0, p85Values |-> <<>>, avgSpeeds |-> <<>>]
    ELSE LET st == statsLoop_CountAll(rows, n - 1)
             row == rows[n]
             speed == Truthy(row, "avg_speed")
         IN  [totalVehicles |-> st.totalVehicles + OrElse(row, "vehicles", 0),
              totalViolators |-> st.totalViolators + OrElse(row, "violators", 0),
              sumSpeeds |-> IF speed
                            THEN st.sumSpeeds + row.avg_speed * OrElse(row, "vehicles", 1)
                            ELSE st.sumSpeeds,
              speedCount |-> st.speedCount + OrElse(row, "vehicles", 1),
              avgSpeeds |-> IF speed THEN Append(st.avgSpeeds, row.avg_speed)
                            ELSE st.avgSpeeds,
              peakSpeed |-> IF Truthy(row, "peak_speed")
                            THEN Max2(st.peakSpeed, row.peak_speed) ELSE st.peakSpeed,
              p85Values |-> IF Truthy(row, "p85") /\ row.p85 > 0
                            THEN Append(st.p85Values, row.p85) ELSE st.p85Values]

\* lines 307-322 (578-583): the locals of a call before its loop
statsStart ==
    [totalVehicles |-> 0, totalViolators |-> 0, sumSpeeds |-> 0, speedCount |-> 0,
     peakSpeed |-> 0, p85Values |-> <<>>, avgSpeeds |-> <<>>]

\* lines 325-340 (586-597): one pass of the loop, on the locals st and the
\* record row
statsStep(st, row) ==
    LET speed == Truthy(row, "avg_speed")
    IN  [totalVehicles |-> st.totalVehicles + OrElse(row, "vehicles", 0),
         totalViolators |-> st.totalViolators + OrElse(row, "violators", 0),
         sumSpeeds |-> IF speed
                       THEN st.sumSpeeds + row.avg_speed * OrElse(row, "vehicles", 1)
                       ELSE st.sumSpeeds,
         speedCount |-> IF speed THEN st.speedCount + OrElse(row, "vehicles", 1)
                        ELSE st.speedCount,
         avgSpeeds |-> IF speed THEN Append(st.avgSpeeds, row.avg_speed)
                       ELSE st.avgSpeeds,
         peakSpeed |-> IF Truthy(row, "peak_speed")
                       THEN Max2(st.peakSpeed, row.peak_speed) ELSE st.peakSpeed,
         p85Values |-> IF Truthy(row, "p85") /\ row.p85 > 0
                       THEN Append(st.p85Values, row.p85) ELSE st.p85Values]

\* the totals of lines 324-341 (and 585-598) over the first n rows
RECURSIVE statsLoop(_, _)
statsLoop(rows, n) ==
    IF n = 0 THEN statsStart ELSE statsStep(statsLoop(rows, n - 1), rows[n])

\* Object.values(extractedPercentiles): the entries of the map, here in the
\* order of their keys (the average taken of them does not depend on the order)
objectValues(ext) ==
    IF ext = null THEN <<>>
    ELSE LET keys == SortSeq(CHOOSE q \in [1..Cardinality(DOMAIN ext) -> DOMAIN ext] :
                                 \A k \in DOMAIN ext : \E i \in DOMAIN q : q[i] = k,
                             StrLess)
         IN  [i \in 1..Len(keys) |-> ext[keys[i]]]

\* .map(p => p.p85).filter(v => v && v > 0)
RECURSIVE positiveP85(_)
positiveP85(entries) ==
    IF entries = <<>> THEN <<>>
    ELSE LET rest == positiveP85(SubSeq(entries, 1, Len(entries) - 1))
             p == entries[Len(entries)]
         IN  IF Truthy(p, "p85") /\ p.p85 > 0 THEN Append(rest, p.p85) ELSE rest

\* lines 354-362 and 604-612: the average of the map's positive p85 values, or
\* null when the map is absent, empty or has none
extractedP85(ext) ==
    LET extractedP85Values == positiveP85(objectValues(ext))
    IN  IF Len(extractedP85Values) > 0 THEN average(extractedP85Values) ELSE null

\* perVehicleData.map(v => v.speed).filter(s => s > 0)
RECURSIVE positiveSpeeds(_)
positiveSpeeds(pv) ==
    IF pv = <<>> THEN <<>>
    ELSE LET rest == positiveSpeeds(SubSeq(pv, 1, Len(pv) - 1))
             v == pv[Len(pv)]
         IN  IF "speed" \in DOMAIN v /\ v.speed > 0 THEN Append(rest, v.speed) ELSE rest

\* the percentile of calculateStats with the per-vehicle speeds consulted
\* before the external map
statsP85_PerVehicleFirst(st, pv, ext) ==
    LET first == IF pv # null /\ Len(pv) > 0
                 THEN Num(calculate85thPercentile(positiveSpeeds(pv))) ELSE null
        second == IF first = null THEN extractedP85(ext) ELSE first
        third == IF second = null /\ Len(st.p85Values) > 0
                 THEN average(st.p85Values) ELSE second
    IN  IF third = null /\ Len(st.avgSpeeds) > 0
        THEN Num(calculate85thPercentile(st.avgSpeeds)) ELSE third

\* lines 352-375: the percentile of calculateStats
statsP85(st, pv, ext) ==
    LET first == extractedP85(ext)
        second == IF first = null /\ pv # null /\ Len(pv) > 0
                  THEN Num(calculate85thPercentile(positiveSpeeds(pv))) ELSE first
        third == IF second = null /\ Len(st.p85Values) > 0
                 THEN average(st.p85Values) ELSE second
    IN  IF third = null /\ Len(st.avgSpeeds) > 0
        THEN Num(calculate85thPercentile(st.avgSpeeds)) ELSE third

\* lines 343-377 without the guard of line 344
statsFinish_Unguarded(st, pv, ext) ==
    [totalVehicles |-> st.totalVehicles,
     totalViolators |-> st.totalViolators,
     pctSpeeders |-> IF st.totalVehicles # 0
                     THEN Rat(st.totalViolators * 100, st.totalVehicles)
                     ELSE IF st.totalViolators # 0 THEN Num(Infinity) ELSE NaN,
     avgSpeed |-> IF st.speedCount > 0 THEN Rat(st.sumSpeeds, st.speedCount)
                  ELSE Num(0),
     peakSpeed |-> st.peakSpeed,
     p85 |-> statsP85(st, pv, ext)]

\* lines 307-314: the statistics of an empty collection
statsDefault ==
    [totalVehicles |-> 0, totalViolators |-> 0, pctSpeeders |-> Num(0),
     avgSpeed |-> Num(0), peakSpeed |-> 0, p85 |-> null]

\* lines 343-377: the rest of calculateStats after its loop, on the locals st
statsFinish(st, pv, ext) ==
    [totalVehicles |-> st.totalVehicles,
     totalViolators |-> st.totalViolators,
     pctSpeeders |-> IF st.totalVehicles > 0
                     THEN Rat(st.totalViolators * 100, st.totalVehicles)
                     ELSE Num(0),
     avgSpeed |-> IF st.speedCount > 0 THEN Rat(st.sumSpeeds, st.speedCount)
                  ELSE Num(0),
     peakSpeed |-> st.peakSpeed,
     p85 |-> statsP85(st, pv, ext)]

calculateStats(rows, pv, ext) ==
    IF rows = null \/ Len(rows) = 0 THEN statsDefault
    ELSE statsFinish(statsLoop(rows, Len(rows)), pv, ext)

\* reportP85 with the avg_speed percentile consulted before the direct values
reportP85_SpeedsFirst(st, ext) ==
    LET first == extractedP85(ext)
        second == IF first = null /\ Len(st.avgSpeeds) > 0
                  THEN Num(calculate85thPercentile(st.avgSpeeds)) ELSE first
    IN  IF second = null /\ Len(st.p85Values) > 0
        THEN average(st.p85Values) ELSE second

\* lines 601-620: the percentile of calculateReportStatistics
reportP85(st, ext) ==
    LET first == extractedP85(ext)
        second == IF first = null /\ Len(st.p85Values) > 0
                  THEN average(st.p85Values) ELSE first
    IN  IF second = null /\ Len(st.avgSpeeds) > 0
        THEN Num(calculate85thPercentile(st.avgSpeeds)) ELSE second

\* lines 569-575: the report statistics of an empty collection
reportDefault ==
    [totalVehicles |-> 0, totalViolators |-> 0, violationRate |-> Num(0),
     avgSpeed |-> Num(0), p85Speed |-> null]

\* lines 600-628: the rest of calculateReportStatistics after its loop
reportFinish(st, ext) ==
    [totalVehicles |-> st.totalVehicles,
     totalViolators |-> st.totalViolators,
     violationRate |-> IF st.totalVehicles > 0
                       THEN Rat(st.totalViolators * 100, st.totalVehicles)
                       ELSE Num(0),
     avgSpeed |-> IF st.speedCount > 0 THEN Rat(st.sumSpeeds, st.speedCount)
                  ELSE Num(0),
     p85Speed |-> reportP85(st, ext)]

calculateReportStatistics(rows, ext) ==
    IF rows = null \/ Len(rows) = 0 THEN reportDefault
    ELSE reportFinish(statsLoop(rows, Len(rows)), ext)

(***************************************************************************)
(* Inputs of the overall statistics                                        *)
(***************************************************************************)
\* records that vary the percentile evidence
TierRows ==
    {[vehicles |-> 2],
     [vehicles |-> 2, p85 |-> 5],
     [vehicles |-> 2, p85 |-> 6, avg_speed |-> 3],
     [vehicles |-> 2, p85 |-> 0, avg_speed |-> 3],
     [vehicles |-> 2, avg_speed |-> 4]}

\* records that vary the counts and the weights of the average speed
WeightRows ==
    {[violators |-> 1], [avg_speed |-> 3], [avg_speed |-> 4]}
    \cup {[vehicles |-> v[1], violators |-> v[2]] : v \in {<<0, 0>>, <<2, 1>>}}
    \cup {[vehicles |-> v[1], violators |-> v[2], avg_speed |-> a] :
              v \in {<<0, 0>>, <<2, 1>>}, a \in {3, 4}}

\* per-vehicle observations
PerVehicleRows == {[speed |-> 0], [speed |-> 2], [speed |-> 4]}

\* the external maps of the overall statistics: one or two days
StatsMaps ==
    {null,
     [k \in {DayKey(0)} |-> [p50 |-> 6, p85 |-> 7]],
     [k \in {DayKey(0)} |-> [p50 |-> 6, p85 |-> 0]],
     [k \in {DayKey(0)} |-> [p50 |-> 6]],
     [k \in {DayKey(0), DayKey(MaxDay)} |-> [p50 |-> 6, p85 |-> IF k = DayKey(0) THEN 7 ELSE 10]],
     [k \in {DayKey(0), DayKey(MaxDay)} |-> [p50 |-> 6, p85 |-> IF k = DayKey(0) THEN 0 ELSE 10]]}

InitStats ==
    /\ \/ /\ data \in SeqsUpTo(TierRows, MaxRows)
          /\ perVehicleData \in SeqsUpTo(PerVehicleRows, MaxPv)
          /\ extractedPercentiles \in StatsMaps
       \/ /\ data \in SeqsUpTo(WeightRows, MaxRows) \cup SeqsUpTo(PeakRows, MaxRows)
          /\ perVehicleData = null
          /\ extractedPercentiles = null
    /\ values = null
    /\ binCounts = <<>>
    /\ bins = <<>>
    /\ called = "none"
    /\ ret = null
    /\ frames = <<>>
    /\ tables = moduleTables

\* one call on the collection, per behaviour
CalculateStats ==
    /\ called = "none"
    /\ ret' = calculateStats(data, perVehicleData, extractedPercentiles)
    /\ called' = "calculateStats"
    /\ UNCHANGED <<data, extractedPercentiles, perVehicleData, values, binCounts, bins,
                   frames, tables>>

CalculateReportStatistics ==
    /\ called = "none"
    /\ ret' = calculateReportStatistics(data, extractedPercentiles)
    /\ called' = "calculateReportStatistics"
    /\ UNCHANGED <<data, extractedPercentiles, perVehicleData, values, binCounts, bins,
                   frames, tables>>

NextStats == CalculateStats \/ CalculateReportStatistics

SpecStats == InitStats /\ [][NextStats]_vars


(***************************************************************************)
(* Claims about calculateStats and calculateReportStatistics               *)
(***************************************************************************)
\* the p85 of the returned statistics
ReturnedP85 == IF called = "calculateStats" THEN ret.p85 ELSE ret.p85Speed

\* the positive speeds among the per-vehicle observations
PositiveSpeeds ==
    SelectSeq([i \in 1..Len(perVehicleData) |->
                   IF "speed" \in DOMAIN perVehicleData[i] THEN perVehicleData[i].speed ELSE 0],
              LAMBDA x : x > 0)

\* the dates of the external map that carry a positive p85
PositiveDates ==
    IF extractedPercentiles = null THEN {}
    ELSE {k \in DOMAIN extractedPercentiles :
              /\ "p85" \in DOMAIN extractedPercentiles[k]
              /\ extractedPercentiles[k].p85 > 0}

RECURSIVE MapP85Sum(_)
MapP85Sum(S) ==
    IF S = {} THEN 0
    ELSE LET k == CHOOSE x \in S : TRUE
         IN  extractedPercentiles[k].p85 + MapP85Sum(S \ {k})

MapP85Average == Rat(MapP85Sum(PositiveDates), Cardinality(PositiveDates))

DirectP85Rows == {i \in 1..Len(data) : "p85" \in DOMAIN data[i] /\ data[i].p85 > 0}

AvgSpeedRows == {i \in 1..Len(data) : "avg_speed" \in DOMAIN data[i] /\ data[i].avg_speed # 0}

\* C6 as claimed: in calculateStats, per-vehicle observations with a positive
\* speed given together with an external map holding a positive p85 make p85
\* the nearest-rank 85th percentile of the positive per-vehicle speeds.
C6_AsClaimed ==
    (/\ called = "calculateStats"
     /\ Len(data) > 0
     /\ Len(PositiveSpeeds) > 0
     /\ PositiveDates # {})
        => ret.p85 = Num(calculate85thPercentile(PositiveSpeeds))

\* C6 amended: in calculateStats on a non-empty collection, per-vehicle
\* observations with a positive speed given together with an external map
\* holding a positive p85 make p85 the average of the map's positive p85
\* values (the external map is consulted first); the nearest-rank 85th
\* percentile of the positive per-vehicle speeds is the p85 when the map holds
\* no positive p85.
C6_ExternalBeforePerVehicle ==
    (/\ called = "calculateStats"
     /\ Len(data) > 0
     /\ Len(PositiveSpeeds) > 0)
        => ret.p85 = IF PositiveDates # {} THEN MapP85Average
                     ELSE Num(calculate85thPercentile(PositiveSpeeds))

\* positive per-vehicle speeds next to a map of two days with positive p85
C6_Witness ==
    /\ called = "calculateStats"
    /\ Len(data) > 0
    /\ Len(PositiveSpeeds) > 0
    /\ Cardinality(PositiveDates) = 2
    /\ ret.p85 = MapP85Average
    /\ ret.p85 # Num(calculate85thPercentile(PositiveSpeeds))

\* the p85 that the records alone give: the average of the positive direct
\* p85 values, else the percentile of the avg_speed values, else null
RecordsP85 ==
    LET direct == [i \in 1..Len(data) |-> IF i \in DirectP85Rows THEN data[i].p85 ELSE 0]
        speeds == [i \in 1..Len(data) |-> IF i \in AvgSpeedRows THEN data[i].avg_speed ELSE 0]
    IN  IF DirectP85Rows # {}
        THEN Rat(sum(direct), Cardinality(DirectP85Rows))
        ELSE IF AvgSpeedRows # {}
             THEN Num(calculate85thPercentile(SelectSeq(speeds, LAMBDA x : x # 0)))
             ELSE null

\* C7 as claimed: the p85 of calculateStats and calculateReportStatistics is
\* null whenever there is no positive per-vehicle speed, no positive p85 in the
\* external map, no record with a positive direct p85 and no record with an
\* avg_speed; and per-vehicle observations that are all non-positive leave the
\* p85 to the records (direct p85 average, then avg_speed percentile), never
\* making it 0.
C7_AsClaimed ==
    (called \in {"calculateStats", "calculateReportStatistics"} /\ PositiveDates = {}) =>
        /\ (/\ called = "calculateStats" => Len(PositiveSpeeds) = 0
            /\ DirectP85Rows = {}
            /\ AvgSpeedRows = {})
               => ReturnedP85 = null
        /\ (/\ called = "calculateStats"
            /\ Len(perVehicleData) > 0
            /\ Len(PositiveSpeeds) = 0)
               => ReturnedP85 # Num(0) /\ ReturnedP85 = RecordsP85

\* calculateStats called with per-vehicle observations that are all
\* non-positive, on records that carry a direct p85
C7_Witness ==
    /\ called = "calculateStats"
    /\ PositiveDates = {}
    /\ Len(perVehicleData) > 0
    /\ Len(PositiveSpeeds) = 0
    /\ DirectP85Rows # {}
    /\ ret.p85 = Num(0)


(***************************************************************************)
(* calculateSpeedBins and the bin assignment of the table generators       *)
(***************************************************************************)
MaxSpeeds == 2

\* speed > bins[i].min in place of >=
atLeast_Strict(speed, min) == speed[1] > min * speed[2]

\* speed >= bins[i].min for a speed <<n, d>> and an integer min
atLeast(speed, min) == speed[1] >= min * speed[2]

\* speed < bins[i].max; nothing is below Infinity but a finite number
below(speed, max) ==
    IF max = Infinity THEN speed # Num(Infinity) ELSE speed[1] < max * speed[2]

\* the inner loop without the `break` of line 448
RECURSIVE countSpeed_NoBreak(_, _, _, _)
countSpeed_NoBreak(counts, speed, table, i) ==
    IF i > Len(table) THEN counts
    ELSE LET inBin == atLeast(speed, table[i].min) /\ below(speed, table[i].max)
             c1 == IF inBin THEN [counts EXCEPT ![i] = @ + 1] ELSE counts
             c2 == IF i = Len(table) /\ atLeast(speed, table[i].min)
                   THEN [c1 EXCEPT ![i] = @ + 1] ELSE c1
         IN  countSpeed_NoBreak(c2, speed, table, i + 1)

\* lines 445-454: the inner loop from bin i (1-based here) for one speed
RECURSIVE countSpeed(_, _, _, _)
countSpeed(counts, speed, table, i) ==
    IF i > Len(table) THEN counts
    ELSE IF atLeast(speed, table[i].min) /\ below(speed, table[i].max)
    THEN [counts EXCEPT ![i] = @ + 1]
    ELSE LET c == IF i = Len(table) /\ atLeast(speed, table[i].min)
                  THEN [counts EXCEPT ![i] = @ + 1] ELSE counts
         IN  countSpeed(c, speed, table, i + 1)

\* lines 444-455: the outer loop over the first n speeds
RECURSIVE speedLoop(_, _, _)
speedLoop(speeds, table, n) ==
    IF n = 0 THEN [i \in 1..Len(table) |-> 0]
    ELSE countSpeed(speedLoop(speeds, table, n - 1), speeds[n], table, 1)

calculateSpeedBins(speeds, table) == speedLoop(speeds, table, Len(speeds))

\* tableRenderer.js lines 351-357: the vehicles of one interval added to the
\* first bin that holds its average speed
RECURSIVE assignBin(_, _, _, _, _)
assignBin(groupBins, avgSpeed, vehicles, table, i) ==
    IF i > Len(table) THEN groupBins
    ELSE IF atLeast(avgSpeed, table[i].min)
            /\ (below(avgSpeed, table[i].max) \/ i = Len(table))
    THEN [groupBins EXCEPT ![i] = @ + vehicles]
    ELSE assignBin(groupBins, avgSpeed, vehicles, table, i + 1)

\* tableRenderer.js lines 335-358: the bins of a group after the intervals
\* 1..n, each of `vehicles` vehicles (`if (row.avg_speed && vehicles > 0)`)
RECURSIVE assignLoop(_, _, _, _)
assignLoop(speeds, vehicles, table, n) ==
    IF n = 0 THEN [i \in 1..Len(table) |-> 0]
    ELSE LET before == assignLoop(speeds, vehicles, table, n - 1)
         IN  IF speeds[n][1] # 0 /\ vehicles > 0
             THEN assignBin(before, speeds[n], vehicles, table, 1)
             ELSE before

\* the speeds offered to the classifier, in tenths: below, at and between the
\* edges of both tables, and an unbounded reading
SpeedTenths == {0, 9, 10, 49, 50, 99, 100, 105, 110, 150, 599, 600, 610, 699, 700, 755}

SampleSpeeds == {Rat(t, 10) : t \in SpeedTenths} \cup {Num(Infinity)}

InitSpeedBins ==
    /\ values \in SeqsUpTo(SampleSpeeds, MaxSpeeds)
    /\ bins \in {SPEED_BINS_8, SPEED_BINS_12, EXAMPLE_BINS}
    /\ data = null
    /\ extractedPercentiles = null
    /\ perVehicleData = null
    /\ binCounts = <<>>
    /\ called = "none"
    /\ ret = null
    /\ frames = <<>>
    /\ tables = moduleTables

CalculateSpeedBins ==
    /\ called = "none"
    /\ ret' = calculateSpeedBins(values, bins)
    /\ called' = "calculateSpeedBins"
    /\ UNCHANGED <<data, extractedPercentiles, perVehicleData, values, binCounts, bins,
                   frames, tables>>

\* the bin assignment of a table generator for intervals of one vehicle each
AssignBins ==
    /\ called = "none"
    /\ ret' = assignLoop(values, 1, bins, Len(values))
    /\ called' = "assignBins"
    /\ UNCHANGED <<data, extractedPercentiles, perVehicleData, values, binCounts, bins,
                   frames, tables>>

NextSpeedBins == CalculateSpeedBins \/ AssignBins

SpecSpeedBins == InitSpeedBins /\ [][NextSpeedBins]_vars


(***************************************************************************)
(* Claims about the speed bins                                             *)
(***************************************************************************)
\* bin i takes the speed under the rule min <= speed < max, the last bin
\* taking every speed >= its min
Matches(speed, i) ==
    /\ speed[1] >= bins[i].min * speed[2]
    /\ \/ i = Len(bins)
       \/ IF bins[i].max = Infinity THEN speed[1] < Infinity
          ELSE speed[1] < bins[i].max * speed[2]

\* the first bin in table order that takes the speed, if any
FirstMatch(speed) ==
    {i \in 1..Len(bins) : Matches(speed, i) /\ \A j \in 1..(i - 1) : ~Matches(speed, j)}

\* the speeds of the input whose first matching bin is i
CountedIn(i) == {k \in 1..Len(values) : i \in FirstMatch(values[k])}

\* C11: calculateSpeedBins counts each speed in at most one bin, the first in
\* table order with min <= speed < max, the last bin taking every speed >= its
\* min (70 goes to '70+' of the 8-bin table, 61 to '61+' of the 12-bin table);
\* a speed below the first bin's min is counted nowhere and the counts sum to
\* no more than the number of speeds.
C11_AtMostOneBin ==
    called = "calculateSpeedBins" =>
        /\ Len(ret) = Len(bins)
        /\ \A i \in 1..Len(bins) : ret[i] = Cardinality(CountedIn(i))
        /\ reduceAdd(ret) <= Len(values)
        /\ (\A k \in 1..Len(values) : values[k][1] < bins[1].min * values[k][2])
              => reduceAdd(ret) = 0
        /\ (values = <<Num(70)>> /\ bins = SPEED_BINS_8) => ret[8] = 1
        /\ (values = <<Num(61)>> /\ bins = SPEED_BINS_12) => ret[12] = 1

\* 70 and a speed below 1 classified against the 8-bin table
C11_Witness ==
    /\ called = "calculateSpeedBins"
    /\ bins = SPEED_BINS_8
    /\ values = <<Num(70), Rat(9, 10)>>
    /\ ret[8] = 1
    /\ reduceAdd(ret) = 1

\* C12 as claimed: 9.9 classified against the 8-bin table matches no bin and
\* every count stays 0.
C12_AsClaimed ==
    (called = "calculateSpeedBins" /\ bins = SPEED_BINS_8 /\ values = <<Rat(99, 10)>>)
        => \A i \in 1..Len(ret) : ret[i] = 0

\* C12 amended: 9.9 classified against the 8-bin table is counted in the first
\* bin '1-10', as is every speed from 1 up to but not including 10; a speed
\* below 1, such as 0.9, matches no bin and every count stays 0.
C12_FirstBin ==
    (called = "calculateSpeedBins" /\ bins = SPEED_BINS_8 /\ Len(values) = 1) =>
        LET speed == values[1]
        IN  /\ speed = Rat(99, 10) => ret = <<1, 0, 0, 0, 0, 0, 0, 0>>
            /\ (speed[1] >= speed[2] /\ speed[1] < 10 * speed[2])
                  => ret = <<1, 0, 0, 0, 0, 0, 0, 0>>
            /\ speed[1] < speed[2] => ret = <<0, 0, 0, 0, 0, 0, 0, 0>>

\* 9.9 classified against the 8-bin table
C12_Witness ==
    /\ called = "calculateSpeedBins"
    /\ bins = SPEED_BINS_8
    /\ values = <<Rat(99, 10)>>
    /\ ret[1] = 1

\* C13 as claimed: in both fixed tables every speed greater than or equal to
\* the first bin's min is matched by exactly one bin, so that a speed is dropped
\* only when it is below the first bin's min; in calculateSpeedBins and in the
\* bin assignment of the table generators.
C13_AsClaimed ==
    (called \in {"calculateSpeedBins", "assignBins"} /\ bins \in {SPEED_BINS_8, SPEED_BINS_12}) =>
        /\ \A k \in 1..Len(values) :
              values[k][1] >= bins[1].min * values[k][2]
                  => Cardinality({i \in 1..Len(bins) : Matches(values[k], i)}) = 1
        /\ reduceAdd(ret)
              = Cardinality({k \in 1..Len(values) : values[k][1] >= bins[1].min * values[k][2]})

\* the speed 10 offered to the 12-bin table and counted nowhere
C13_Witness ==
    /\ called \in {"calculateSpeedBins", "assignBins"}
    /\ bins = SPEED_BINS_12
    /\ values = <<Num(10)>>
    /\ reduceAdd(ret) = 0


(***************************************************************************)
(* aggregateBy24Hour                                                       *)
(***************************************************************************)
\* lines 526-534: the 24 empty slots (labels are display strings and are left
\* out); hour h is element h + 1
newHourSlots ==
    [i \in 1..HoursPerDay |->
        [hour |-> i - 1, vehicles |-> 0, violators |-> 0, sumSpeeds |-> 0,
         speedCount |-> 0, speeds |-> <<>>]]

\* the accumulation with `row.vehicles || 0` as the weight of a speed
addToSlot_ZeroWeight(slot, row) ==
    LET withSpeed == Truthy(row, "avg_speed")
    IN  [slot EXCEPT
            !.vehicles = @ + OrElse(row, "vehicles", 0),
            !.violators = @ + OrElse(row, "violators", 0),
            !.sumSpeeds = IF withSpeed
                          THEN @ + row.avg_speed * OrElse(row, "vehicles", 0) ELSE @,
            !.speedCount = IF withSpeed THEN @ + OrElse(row, "vehicles", 0) ELSE @,
            !.speeds = IF withSpeed THEN Append(@, row.avg_speed) ELSE @]

\* lines 541-548: one row added to the slot of its hour
addToSlot(slot, row) ==
    LET withSpeed == Truthy(row, "avg_speed")
    IN  [slot EXCEPT
            !.vehicles = @ + OrElse(row, "vehicles", 0),
            !.violators = @ + OrElse(row, "violators", 0),
            !.sumSpeeds = IF withSpeed
                          THEN @ + row.avg_speed * OrElse(row, "vehicles", 1) ELSE @,
            !.speedCount = IF withSpeed THEN @ + OrElse(row, "vehicles", 1) ELSE @,
            !.speeds = IF withSpeed THEN Append(@, row.avg_speed) ELSE @]

\* lines 537-548: one pass of the loop, on the slots hourly and the record row
hourOfDayStep(hourly, row) ==
    IF "datetime" \notin DOMAIN row THEN hourly
    ELSE LET hour == getHours(row.datetime)
         IN  [hourly EXCEPT ![hour + 1] = addToSlot(@, row)]

\* lines 536-549: the slots after the rows 1..n
RECURSIVE hourOfDayLoop(_, _)
hourOfDayLoop(rows, n) ==
    IF n = 0 THEN newHourSlots ELSE hourOfDayStep(hourOfDayLoop(rows, n - 1), rows[n])

\* lines 552-558: the rest of aggregateBy24Hour after its loop
hourOfDayFinish(hourly) ==
    [i \in 1..Len(hourly) |->
        [hour |-> hourly[i].hour,
         vehicles |-> hourly[i].vehicles,
         violators |-> hourly[i].violators,
         avgSpeed |-> IF hourly[i].speedCount > 0
                      THEN Rat(hourly[i].sumSpeeds, hourly[i].speedCount) ELSE null]]

aggregateBy24Hour(rows) == hourOfDayFinish(hourOfDayLoop(rows, Len(rows)))

\* records of two days in the same and in different hours of the day, with and
\* without vehicles and avg_speed, and one without a timestamp
HourOfDayRows ==
    LET times == {DateAt(0, 0, 0), DateAt(MaxDay, 0, MaxMinute), DateAt(0, MaxHour, 0)}
        payload == {[vehicles |-> 3],
                    [avg_speed |-> 2],
                    [vehicles |-> 0, avg_speed |-> 4],
                    [vehicles |-> 3, violators |-> 1, avg_speed |-> 4]}
    IN  {[datetime |-> t] @@ c : t \in times, c \in payload}
            \cup {[vehicles |-> 3, avg_speed |-> 2]}

InitHourOfDay ==
    /\ data \in SeqsUpTo(HourOfDayRows, MaxRows)
    /\ extractedPercentiles = null
    /\ perVehicleData = null
    /\ values = null
    /\ binCounts = <<>>
    /\ bins = <<>>
    /\ called = "none"
    /\ ret = null
    /\ frames = <<>>
    /\ tables = moduleTables

AggregateBy24Hour ==
    /\ called = "none"
    /\ ret' = aggregateBy24Hour(data)
    /\ called' = "aggregateBy24Hour"
    /\ UNCHANGED <<data, extractedPercentiles, perVehicleData, values, binCounts, bins,
                   frames, tables>>

NextHourOfDay == AggregateBy24Hour

SpecHourOfDay == InitHourOfDay /\ [][NextHourOfDay]_vars

\* the timestamped records whose hour of day is h
RowsAtHour(h) ==
    {i \in 1..Len(data) :
        "datetime" \in DOMAIN data[i] /\ (data[i].datetime \div 60) % 24 = h}

SpeedRowsAtHour(h) ==
    {i \in RowsAtHour(h) : "avg_speed" \in DOMAIN data[i] /\ data[i].avg_speed # 0}

\* the weight of record i: its vehicle count, or 1 when that is 0 or absent
Weight(i) ==
    IF "vehicles" \in DOMAIN data[i] /\ data[i].vehicles # 0 THEN data[i].vehicles ELSE 1

RECURSIVE WeightSum(_)
WeightSum(S) ==
    IF S = {} THEN 0
    ELSE LET i == CHOOSE j \in S : TRUE IN Weight(i) + WeightSum(S \ {i})

RECURSIVE WeightedSpeedSum(_)
WeightedSpeedSum(S) ==
    IF S = {} THEN 0
    ELSE LET i == CHOOSE j \in S : TRUE
         IN  data[i].avg_speed * Weight(i) + WeightedSpeedSum(S \ {i})

\* C14: aggregateBy24Hour returns 24 slots with hour = 0..23 in increasing
\* order for every input; each timestamped record is added to the slot of its
\* hour of day whatever its date, the slot vehicles sum to the vehicle_count of
\* the timestamped records, and a slot's avgSpeed is null exactly when no
\* record with avg_speed fell into it and else sum(avg_speed * w) / sum(w) with
\* w = vehicle_count, or 1 when that is 0 or absent.
C14_HourOfDay ==
    called = "aggregateBy24Hour" =>
        /\ Len(ret) = 24
        /\ \A i \in 1..24 :
              /\ ret[i].hour = i - 1
              /\ ret[i].vehicles = RecordVehicles(RowsAtHour(i - 1))
              /\ (ret[i].avgSpeed = null) <=> (SpeedRowsAtHour(i - 1) = {})
              /\ SpeedRowsAtHour(i - 1) # {} =>
                    ret[i].avgSpeed[1] * WeightSum(SpeedRowsAtHour(i - 1))
                        = WeightedSpeedSum(SpeedRowsAtHour(i - 1)) * ret[i].avgSpeed[2]
        /\ BucketVehicles(Len(ret)) = RecordVehicles(Stamped)

\* two records of different days in the same hour of the day, one of them with
\* avg_speed and vehicle_count 0
C14_Witness ==
    /\ called = "aggregateBy24Hour"
    /\ Len(data) = 2
    /\ \A i \in 1..2 : i \in SpeedRowsAtHour(0)
    /\ data[1].datetime \div 1440 # data[2].datetime \div 1440
    /\ \E i \in 1..2 : "vehicles" \in DOMAIN data[i] /\ data[i].vehicles = 0
    /\ \E i \in 1..2 : "vehicles" \in DOMAIN data[i] /\ data[i].vehicles > 0
    /\ ret[1].avgSpeed # null


(***************************************************************************)
(* Claims about the order and the values of the buckets                    *)
(***************************************************************************)
\* C15: the buckets returned by aggregateDaily and aggregateHourly are in
\* strictly increasing chronological order of their key, no key appearing
\* twice, in whatever order the records are supplied.
C15_Chronological ==
    Aggregated =>
        \A i, j \in 1..Len(ret) : i < j => BucketSlot(ret[i]) < BucketSlot(ret[j])

\* records supplied latest first, the later one in the month after the earlier
C15_Witness ==
    /\ Aggregated
    /\ Len(data) = 2
    /\ Stamped = {1, 2}
    /\ data[1].datetime > data[2].datetime
    /\ SlotOf(data[1].datetime) # SlotOf(data[2].datetime)
    /\ RowsIn(ret[1]) = {2}
    /\ RowsIn(ret[Len(ret)]) = {1}


RECURSIVE DirectP85Sum(_)
DirectP85Sum(S) ==
    IF S = {} THEN 0
    ELSE LET i == CHOOSE j \in S : TRUE IN data[i].p85 + DirectP85Sum(S \ {i})

\* the avg_speed samples of bucket b in the order of the input
BucketSamples(b) ==
    LET rows == SelectSeq([i \in 1..Len(data) |-> i], LAMBDA i : i \in SpeedsIn(b))
    IN  [k \in 1..Len(rows) |-> data[rows[k]].avg_speed]

\* C16: a bucket whose date has no external map entry has as p85 the mean of
\* its positive direct_p85 values if it has any (a direct_p85 of 0 counts as
\* absent), else calculate85thPercentile of its avg_speed samples, one of those
\* samples, if it has any, else null.
C16_BucketFallback ==
    Aggregated =>
        \A b \in Buckets :
            ~HasEntry(b) =>
                IF DirectP85In(b) # {}
                THEN /\ b.p85 # null
                     /\ b.p85[1] * Cardinality(DirectP85In(b))
                            = DirectP85Sum(DirectP85In(b)) * b.p85[2]
                ELSE IF SpeedsIn(b) # {}
                THEN /\ b.p85 = Num(calculate85thPercentile(BucketSamples(b)))
                     /\ \E i \in SpeedsIn(b) : b.p85 = Num(data[i].avg_speed)
                ELSE b.p85 = null

\* without a map: a bucket with two different direct values, whose mean is
\* none of them
C16_Witness ==
    /\ Aggregated
    /\ extractedPercentiles = null
    /\ \E b \in Buckets :
          /\ Cardinality(DirectP85In(b)) = 2
          /\ \A i \in DirectP85In(b) : b.p85 # Num(data[i].p85)
          /\ b.p85 = Num(4)


\* the value of a number <<n, d>> lies between the integers lo and hi
Between(x, lo, hi) == lo * x[2] <= x[1] /\ x[1] <= hi * x[2]

\* C17 as claimed: in every bucket avg_speed is null exactly when none of its
\* records carries an avg_speed; a bucket that collected an avg_speed has a
\* non-null avg_speed also when its vehicles total 0, so that avg_speed is
\* non-null whenever p85 was derived from avg_speed samples.
C17_AsClaimed ==
    Aggregated =>
        \A b \in Buckets :
            /\ (b.avg_speed = null) <=> (SpeedsIn(b) = {})
            /\ (~HasEntry(b) /\ DirectP85In(b) = {} /\ b.p85 # null) => b.avg_speed # null

\* a bucket whose only record has an avg_speed and a vehicle count of 0, with
\* p85 drawn from that avg_speed and avg_speed null
C17_Witness ==
    /\ Aggregated
    /\ \E b \in Buckets :
          /\ SpeedsIn(b) # {}
          /\ b.vehicles = 0
          /\ b.p85 # null
          /\ b.avg_speed = null

\* C18 as claimed: in every bucket with speed evidence avg_speed equals
\* sum(avg_speed_i * w_i) / sum(w_i) over its records that carry an avg_speed,
\* with w_i = max(vehicle_count_i, 1), and so lies between the smallest and the
\* largest avg_speed of the bucket.
C18_AsClaimed ==
    Aggregated =>
        \A b \in Buckets :
            SpeedsIn(b) # {} =>
                /\ b.avg_speed # null
                /\ b.avg_speed[1] * WeightSum(SpeedsIn(b))
                      = WeightedSpeedSum(SpeedsIn(b)) * b.avg_speed[2]
                /\ \E i, j \in SpeedsIn(b) :
                      Between(b.avg_speed, data[i].avg_speed, data[j].avg_speed)

\* a bucket of a record with vehicles and no avg_speed and a record with
\* vehicles and an avg_speed, whose avg_speed is below that only sample
C18_Witness ==
    /\ Aggregated
    /\ \E b \in Buckets :
          /\ Cardinality(SpeedsIn(b)) = 1
          /\ Cardinality(RowsIn(b)) = 2
          /\ b.avg_speed # null
          /\ \A i \in SpeedsIn(b) : b.avg_speed[1] < data[i].avg_speed * b.avg_speed[2]


(***************************************************************************)
(* Claims about the overall average speed and the hourly percentile        *)
(***************************************************************************)
\* C19: calculateStats and calculateReportStatistics return avgSpeed =
\* sum(avg_speed * w) / sum(w) over the records carrying an avg_speed, with
\* w = vehicle_count, or 1 when that is absent or 0, and avgSpeed = 0 when no
\* record carries an avg_speed; records without avg_speed do not enter the
\* divisor.
C19_WeightedAverage ==
    called \in {"calculateStats", "calculateReportStatistics"} =>
        IF AvgSpeedRows = {} THEN ret.avgSpeed = Num(0)
        ELSE ret.avgSpeed[1] * WeightSum(AvgSpeedRows)
                 = WeightedSpeedSum(AvgSpeedRows) * ret.avgSpeed[2]

\* a record with an avg_speed and no (or no positive) vehicle count next to a
\* record with vehicles, and a record with vehicles and no avg_speed next to
\* one with both
C19_Witness ==
    /\ called \in {"calculateStats", "calculateReportStatistics"}
    /\ Len(data) = 2
    /\ \/ /\ AvgSpeedRows = {1, 2}
          /\ "vehicles" \notin DOMAIN data[1] \/ data[1].vehicles = 0
          /\ "vehicles" \in DOMAIN data[2] /\ data[2].vehicles > 1
          /\ data[1].avg_speed # data[2].avg_speed
          /\ ret.avgSpeed = Rat(data[1].avg_speed + data[2].avg_speed * data[2].vehicles,
                                1 + data[2].vehicles)
       \/ /\ AvgSpeedRows = {2}
          /\ "vehicles" \in DOMAIN data[1] /\ data[1].vehicles > 0
          /\ "vehicles" \in DOMAIN data[2] /\ data[2].vehicles > 0
          /\ ret.avgSpeed = Num(data[2].avg_speed)

\* C20 as claimed: in aggregateHourly all hourly buckets of one calendar date
\* that has a map entry carry the same p85, the external p85 of that date.
C20_AsClaimed ==
    called = "aggregateHourly" =>
        \A b1, b2 \in Buckets :
            (HasEntry(b1) /\ BucketDay(b1) = BucketDay(b2)) =>
                /\ b1.p85 = b2.p85
                /\ "p85" \in DOMAIN Entry(b1) => b1.p85 = Num(Entry(b1).p85)

\* C20 amended: in aggregateHourly all hourly buckets of one calendar date
\* whose map entry has a non-zero p85 carry the same p85, that entry's p85,
\* the map being read under the bucket's date and never under its hour; when
\* the entry's p85 is 0 or missing each bucket of the date resolves its p85
\* from its own records.
C20_SameDaySameP85 ==
    (called = "aggregateHourly" /\ extractedPercentiles # null) =>
        \A key \in DOMAIN extractedPercentiles :
            LET entry == extractedPercentiles[key]
                onDate == {b \in Buckets : BucketDay(b) = DayOfKey(key)}
            IN  IF "p85" \in DOMAIN entry /\ entry.p85 # 0
                THEN \A b1, b2 \in onDate : b1.p85 = b2.p85 /\ b1.p85 = Num(entry.p85)
                ELSE \A b \in onDate :
                         (b.p85 = null) <=> (DirectP85In(b) = {} /\ SpeedsIn(b) = {})

\* two hours of one date with different evidence of their own and the p85 of
\* the date's entry
C20_Witness ==
    /\ called = "aggregateHourly"
    /\ \E b1, b2 \in Buckets :
          /\ b1 # b2
          /\ BucketDay(b1) = BucketDay(b2)
          /\ HasExternalP85(b1)
          /\ DirectP85In(b1) # {}
          /\ SpeedsIn(b2) # {}
          /\ b1.p85 = Num(Entry(b1).p85)
          /\ b2.p85 = b1.p85

(***************************************************************************)
(* Claims about the peak speed of a bucket                                 *)
(***************************************************************************)
\* the records of bucket b that carry a peak_speed other than 0
PeaksIn(b) == {i \in RowsIn(b) : "peak_speed" \in DOMAIN data[i] /\ data[i].peak_speed # 0}

\* C21: in every bucket of aggregateDaily and aggregateHourly, peak_speed is
\* null when no record of the bucket has a peak_speed or all observed
\* peak_speed values are 0, and otherwise it is the maximum peak_speed among
\* the bucket's records; it is never reported as 0.
C21_PeakSpeed ==
    Aggregated =>
        \A b \in Buckets :
            /\ b.peak_speed # Num(0)
            /\ IF PeaksIn(b) = {} THEN b.peak_speed = null
               ELSE /\ \E i \in PeaksIn(b) : b.peak_speed = Num(data[i].peak_speed)
                    /\ \A i \in PeaksIn(b) : data[i].peak_speed <= b.peak_speed[1]

\* a bucket whose greater peak came before its smaller one
C21_Witness ==
    /\ Aggregated
    /\ \E b \in Buckets : \E i, j \in PeaksIn(b) :
          /\ i < j
          /\ data[i].peak_speed > data[j].peak_speed
          /\ b.peak_speed = Num(data[i].peak_speed)

(***************************************************************************)
(* Claims about the walk of the binned percentiles                         *)
(***************************************************************************)
\* C24: for every vector of non-negative bin counts with positive total, the
\* walk in calculate85thFromBins and calculate50thFromBins stops at some bin:
\* the fallback return last_bin.min + 2 is never reached, the bin at which it
\* stops has a count greater than 0 (the `fraction = 0 when count is 0` branch
\* is never taken), and the result lies between that bin's min and min + width.
C24_WalkStops ==
    (/\ called \in {"calculate85thFromBins", "calculate50thFromBins"}
     /\ reduceAdd(binCounts) > 0)
        => LET pn == IF called = "calculate85thFromBins" THEN 17 ELSE 1
               pd == IF called = "calculate85thFromBins" THEN 20 ELSE 2
               i == stopBin(binCounts, reduceAdd(binCounts), pn, pd, 1, 0)
           IN  /\ i \in 1..Len(binCounts)
               /\ binCounts[i] > 0
               /\ bins[i].min <= ret
               /\ ret <= bins[i].min + binWidth(bins[i])

\* a walk that passes empty bins and stops in the open last bin of the 8-bin
\* table
C24_Witness ==
    /\ called = "calculate85thFromBins"
    /\ bins = SPEED_BINS_8
    /\ binCounts[1] = 0
    /\ binCounts[2] > 0
    /\ binCounts[7] = 0
    /\ stopBin(binCounts, reduceAdd(binCounts), 17, 20, 1, 0) = Len(bins)
    /\ ret > bins[Len(bins)].min
    /\ ret <= bins[Len(bins)].min + 5

\* C29: for every vector of non-negative bin counts and the same bin table
\* (SPEED_BINS_8 or SPEED_BINS_12), calculate50thFromBins(counts, bins) <=
\* calculate85thFromBins(counts, bins).
C29_MedianBelowP85 ==
    /\ called = "calculate85thFromBins"
          => \A median \in calculate50thFromBins(binCounts, bins) : median <= ret
    /\ called = "calculate50thFromBins"
          => \A p85 \in calculate85thFromBins(binCounts, bins) : ret <= p85

\* counts of the 12-bin table whose median and 85th percentile fall into
\* different bins
C29_Witness ==
    /\ called = "calculate85thFromBins"
    /\ bins = SPEED_BINS_12
    /\ reduceAdd(binCounts) > 0
    /\ stopBin(binCounts, reduceAdd(binCounts), 1, 2, 1, 0)
           < stopBin(binCounts, reduceAdd(binCounts), 17, 20, 1, 0)
    /\ \E median \in calculate50thFromBins(binCounts, bins) : median < ret

(***************************************************************************)
(* Claims relating calculateStats and calculateReportStatistics            *)
(***************************************************************************)
\* a call without per-vehicle data: the argument is absent or empty
WithoutPerVehicle == perVehicleData = null \/ Len(perVehicleData) = 0

\* C27: calculateStats called without per-vehicle data and
\* calculateReportStatistics agree on every input: for the same record
\* collection and the same external percentile map, totalVehicles and
\* totalViolators are equal, pctSpeeders equals violationRate, avgSpeed is
\* equal and p85 equals p85Speed.
C27_StatsAgree ==
    LET stats == IF called = "calculateStats" THEN ret
                 ELSE calculateStats(data, null, extractedPercentiles)
        report == IF called = "calculateReportStatistics" THEN ret
                  ELSE calculateReportStatistics(data, extractedPercentiles)
    IN  (\/ called = "calculateStats" /\ WithoutPerVehicle
         \/ called = "calculateReportStatistics")
            => /\ stats.totalVehicles = report.totalVehicles
               /\ stats.totalViolators = report.totalViolators
               /\ stats.pctSpeeders = report.violationRate
               /\ stats.avgSpeed = report.avgSpeed
               /\ stats.p85 = report.p85Speed

\* records with a direct p85 and an avg_speed that give different percentiles,
\* and no external p85
C27_Witness ==
    /\ called = "calculateReportStatistics"
    /\ PositiveDates = {}
    /\ DirectP85Rows # {}
    /\ AvgSpeedRows # {}
    /\ ret.p85Speed = RecordsP85
    /\ ret.p85Speed # Num(calculate85thPercentile(
                             SelectSeq([i \in 1..Len(data) |->
                                           IF i \in AvgSpeedRows THEN data[i].avg_speed ELSE 0],
                                       LAMBDA x : x # 0)))
    /\ ret.p85Speed = calculateStats(data, null, extractedPercentiles).p85

\* C30 as claimed: when an external percentile map with at least one positive
\* p85 is supplied, the p85 of calculateReportStatistics (and of calculateStats
\* without per-vehicle data) is the mean of all positive p85 values of the
\* whole map and is the same for any two record collections, including the
\* empty record collection.
C30_AsClaimed ==
    (/\ \/ called = "calculateStats" /\ WithoutPerVehicle
        \/ called = "calculateReportStatistics"
     /\ PositiveDates # {})
        => ReturnedP85 = MapP85Average

\* the empty record collection next to a map of two days with positive p85
\* values: the call returns before it reads the map
C30_Witness ==
    /\ called = "calculateReportStatistics"
    /\ Len(data) = 0
    /\ Cardinality(PositiveDates) = 2
    /\ ret.p85Speed = null

(***************************************************************************)
(* Every operation of the core on one set of arguments                     *)
(***************************************************************************)
MaxCoreRows == 2

\* records of two dates and three hours with their counts, speeds and direct
\* percentile present, zero or absent, and one record without a timestamp
CoreRows ==
    LET times == {DateAt(0, LastHour - MaxHour, 0), DateAt(0, LastHour, MaxMinute),
                  DateAt(MaxDay, 0, 0)}
        payload == {[vehicles |-> 0, violators |-> 0],
                    [vehicles |-> 2],
                    [vehicles |-> 3, violators |-> 1, avg_speed |-> 4, p85 |-> 5]}
    IN  {[datetime |-> t] @@ c : t \in times, c \in payload} \cup {[violators |-> 1]}

\* the count arrays of a table: all zero, or one vehicle in one bin
UnitCounts(table) ==
    {[i \in 1..Len(table) |-> IF i = k THEN 1 ELSE 0] : k \in 0..Len(table)}

InitCore ==
    /\ \/ /\ data \in SeqsUpTo(CoreRows, MaxCoreRows)
          /\ extractedPercentiles \in {null, [k \in {DayKey(0)} |-> [p50 |-> 6, p85 |-> 7]]}
          /\ perVehicleData = null
          /\ values = <<>> /\ binCounts = <<>> /\ bins = <<>>
       \/ /\ data = <<>>
          /\ extractedPercentiles \in StatsMaps
          /\ perVehicleData \in SeqsUpTo(PerVehicleRows, MaxPv)
          /\ values = <<>> /\ binCounts = <<>> /\ bins = <<>>
       \/ /\ data = <<>> /\ extractedPercentiles = null /\ perVehicleData = null
          /\ values = <<>>
          /\ \E table \in {SPEED_BINS_8, SPEED_BINS_12} :
               bins = table /\ binCounts \in UnitCounts(table)
       \/ /\ data = <<>> /\ extractedPercentiles = null /\ perVehicleData = null
          /\ values \in SeqsUpTo(Speeds, MaxCoreRows + 1)
          /\ binCounts = <<>>
          /\ bins \in {SPEED_BINS_8, SPEED_BINS_12}
    /\ called = "none"
    /\ ret = null
    /\ frames = <<>>
    /\ tables = moduleTables

\* a call of calculate85thPercentile(values) on the caller's array
SortAndPick ==
    /\ called = "none"
    /\ ret' = calculate85thPercentile(values)
    /\ values' = spreadSort(values).values
    /\ called' = "calculate85thPercentile"
    /\ UNCHANGED <<data, extractedPercentiles, perVehicleData, binCounts, bins, frames, tables>>

\* a call of calculateSpeedBins(values, bins) on whole-number speeds
CountSpeeds ==
    /\ called = "none"
    /\ ret' = calculateSpeedBins([i \in 1..Len(values) |-> Num(values[i])], bins)
    /\ called' = "calculateSpeedBins"
    /\ UNCHANGED <<data, extractedPercentiles, perVehicleData, values, binCounts, bins,
                   frames, tables>>

\* a call of calculate85thFromBins or calculate50thFromBins on the counts
BinnedPercentile ==
    /\ called = "none"
    /\ \/ ret' \in calculate85thFromBins(binCounts, bins) /\ called' = "calculate85thFromBins"
       \/ ret' \in calculate50thFromBins(binCounts, bins) /\ called' = "calculate50thFromBins"
    /\ UNCHANGED <<data, extractedPercentiles, perVehicleData, values, binCounts, bins,
                   frames, tables>>

NextCore ==
    \/ AggregateDaily
    \/ AggregateHourly
    \/ AggregateBy24Hour
    \/ CalculateStats
    \/ CalculateReportStatistics
    \/ CountSpeeds
    \/ BinnedPercentile
    \/ SortAndPick

SpecCore == InitCore /\ [][NextCore]_vars

(***************************************************************************)
(* Claims about defaults, arguments and granularities                      *)
(***************************************************************************)
AllZero(counts) == \A i \in 1..Len(counts) : counts[i] = 0

\* C23: every operation returns a defined value with the documented defaults:
\* for an empty collection aggregateDaily and aggregateHourly return an empty
\* list and calculateStats / calculateReportStatistics return zero totals, a
\* zero rate, a zero avgSpeed and a null p85 (whatever map or per-vehicle list
\* is supplied); when the total vehicle count of a non-empty collection is 0
\* the rate is 0; the binned percentiles of all-zero counts are 0; and no rate
\* or average is the result of a division by zero.
C23_Defaults ==
    /\ (called \in {"aggregateDaily", "aggregateHourly"} /\ Len(data) = 0) => ret = <<>>
    /\ (called = "calculateStats" /\ Len(data) = 0)
        => ret = [totalVehicles |-> 0, totalViolators |-> 0, pctSpeeders |-> Num(0),
                  avgSpeed |-> Num(0), peakSpeed |-> 0, p85 |-> null]
    /\ (called = "calculateReportStatistics" /\ Len(data) = 0)
        => ret = [totalVehicles |-> 0, totalViolators |-> 0, violationRate |-> Num(0),
                  avgSpeed |-> Num(0), p85Speed |-> null]
    /\ (called = "calculateStats" /\ Len(data) > 0)
        => /\ ret.totalVehicles = 0 => ret.pctSpeeders = Num(0)
           /\ ret.pctSpeeders[2] > 0 /\ ret.avgSpeed[2] > 0
    /\ (called = "calculateReportStatistics" /\ Len(data) > 0)
        => /\ ret.totalVehicles = 0 => ret.violationRate = Num(0)
           /\ ret.violationRate[2] > 0 /\ ret.avgSpeed[2] > 0
    /\ (called \in {"aggregateDaily", "aggregateHourly"})
        => \A i \in 1..Len(ret) :
              /\ ret[i].pct_speeders = null \/ ret[i].pct_speeders[2] > 0
              /\ ret[i].avg_speed = null \/ ret[i].avg_speed[2] > 0
    /\ (called = "aggregateBy24Hour")
        => \A i \in 1..Len(ret) : ret[i].avgSpeed = null \/ ret[i].avgSpeed[2] > 0
    /\ (called \in {"calculate85thFromBins", "calculate50thFromBins"} /\ AllZero(binCounts))
        => ret = 0
    /\ (called = "calculateSpeedBins" /\ Len(values) = 0) => AllZero(ret)

\* a non-empty collection with violators but no vehicles: the rate is 0
C23_Witness ==
    /\ called = "calculateStats"
    /\ Len(data) > 0
    /\ ret.totalVehicles = 0
    /\ ret.totalViolators > 0
    /\ ret.pctSpeeders = Num(0)

\* C26: no operation modifies its arguments: across every call the record
\* collection, the external map, the per-vehicle list, the count and bin
\* arrays and the module's tables are what they were, and the value list given
\* to calculate85thPercentile keeps its order.
C26_ArgumentsKept ==
    [][/\ data' = data
       /\ extractedPercentiles' = extractedPercentiles
       /\ perVehicleData' = perVehicleData
       /\ values' = values
       /\ binCounts' = binCounts
       /\ bins' = bins
       /\ tables' = tables]_vars

\* calculate85thPercentile has returned on a list that was not in ascending
\* order, and the list is still not in ascending order
C26_Witness ==
    /\ called = "calculate85thPercentile"
    /\ Len(values) > 1
    /\ values # SortAsc(values)
    /\ ret = SortAsc(values)[Ceil85(Len(values))]

\* the sum of the property f over the first n elements of a list
RECURSIVE FieldSum(_, _, _)
FieldSum(list, f, n) == IF n = 0 THEN 0 ELSE FieldSum(list, f, n - 1) + list[n][f]

\* the hourly buckets of a calendar date, in order
HoursOfDate(hourly, date) == SelectSeq(hourly, LAMBDA h : getDateKey(h.datetime) = date)

\* C28: when every record has a timestamp, the vehicles and violators of each
\* bucket of aggregateDaily are the sums over the aggregateHourly buckets of
\* its date (and every hourly bucket belongs to a daily bucket), and the
\* totals over the daily buckets, the hourly buckets and the 24 slots of
\* aggregateBy24Hour are totalVehicles and totalViolators of calculateStats.
C28_Granularities ==
    (called = "aggregateDaily" /\ Stamped = 1..Len(data)) =>
        LET hourly == aggregateHourly(data, extractedPercentiles)
            slots == aggregateBy24Hour(data)
            stats == calculateStats(data, perVehicleData, extractedPercentiles)
        IN  /\ \A i \in 1..Len(ret) :
                  \A f \in {"vehicles", "violators"} :
                      LET hours == HoursOfDate(hourly, ret[i].date)
                      IN  ret[i][f] = FieldSum(hours, f, Len(hours))
            /\ \A j \in 1..Len(hourly) :
                  \E i \in 1..Len(ret) : ret[i].date = getDateKey(hourly[j].datetime)
            /\ Len(slots) = HoursPerDay
            /\ \A f \in {"vehicles", "violators"} :
                  LET total == IF f = "vehicles" THEN stats.totalVehicles
                               ELSE stats.totalViolators
                  IN  /\ FieldSum(ret, f, Len(ret)) = total
                      /\ FieldSum(hourly, f, Len(hourly)) = total
                      /\ FieldSum(slots, f, Len(slots)) = total

\* two records of one date in different hours, both with vehicles and
\* violators: the bucket of the date holds both
C28_Witness ==
    /\ called = "aggregateDaily"
    /\ Stamped = 1..Len(data)
    /\ \E i, j \in Stamped :
          /\ getDateKey(data[i].datetime) = getDateKey(data[j].datetime)
          /\ getHourKey(data[i].datetime) # getHourKey(data[j].datetime)
          /\ Truthy(data[i], "violators") /\ Truthy(data[j], "violators")
    /\ \E b \in Buckets : b.vehicles = 6 /\ b.violators = 2

(***************************************************************************)
(* Two invocations of the aggregation functions run step by step           *)
(***************************************************************************)
MaxSteps == 2

AggregationFunctions ==
    {"aggregateDaily", "aggregateHourly", "aggregateBy24Hour", "calculateStats",
     "calculateReportStatistics"}

\* the variables a call declares before its loop (lines 56-60, 170-174,
\* 526-534, 307-322, 578-583)
startOf(fn) ==
    CASE fn = "aggregateDaily" -> dailyStart
      [] fn = "aggregateHourly" -> hourlyStart
      [] fn = "aggregateBy24Hour" -> newHourSlots
      [] OTHER -> statsStart

\* one pass of the loop of fn on the locals st
stepOf(fn, st, row) ==
    CASE fn = "aggregateDaily" -> dailyStep(st, row)
      [] fn = "aggregateHourly" -> hourlyStep(st, row)
      [] fn = "aggregateBy24Hour" -> hourOfDayStep(st, row)
      [] OTHER -> statsStep(st, row)

\* the statements of fn after its loop; calculateStats and
\* calculateReportStatistics return their defaults for an empty collection
finishOf(fn, st, rows, ext) ==
    CASE fn = "aggregateDaily" -> dailyFinish(st, ext)
      [] fn = "aggregateHourly" -> hourlyFinish(st, ext)
      [] fn = "aggregateBy24Hour" -> hourOfDayFinish(st)
      [] fn = "calculateStats" ->
            IF Len(rows) = 0 THEN statsDefault ELSE statsFinish(st, null, ext)
      [] OTHER -> IF Len(rows) = 0 THEN reportDefault ELSE reportFinish(st, ext)

\* the locals of all invocations of a function kept in one place, as
\* module-level variables would be
ownLocals_ModuleLevel(fs, k) ==
    IF fs[1].fn = fs[k].fn THEN fs[1].locals ELSE fs[k].locals

\* the locals invocation k reads and writes: those its own call created
\* (`const grouped = new Map()` and the like are declared inside the functions)
ownLocals(fs, k) == fs[k].locals

\* the record collections of the two invocations
InterleaveRows(k) ==
    IF k = 1
    THEN {[datetime |-> DateAt(0, 0, 0), vehicles |-> 3, violators |-> 1,
           avg_speed |-> 4, p85 |-> 5],
          [datetime |-> DateAt(0, MaxHour, 0), vehicles |-> 2]}
    ELSE {[datetime |-> DateAt(0, 0, MaxMinute), vehicles |-> 1, avg_speed |-> 2,
           peak_speed |-> 6],
          [datetime |-> DateAt(1, 0, 0), vehicles |-> 4, violators |-> 2]}

\* the collections of invocation k: the empty one and those of MaxSteps records
InterleaveData(k) == {s \in SeqsUpTo(InterleaveRows(k), MaxSteps) : Len(s) \in {0, MaxSteps}}

Activation(fn, rows, ext) ==
    [fn |-> fn, rows |-> rows, ext |-> ext, pc |-> 0, locals |-> startOf(fn),
     result |-> null, done |-> FALSE]

InitInterleave ==
    /\ \E fn1, fn2 \in AggregationFunctions :
         \E rows1 \in InterleaveData(1), rows2 \in InterleaveData(2) :
            frames = <<Activation(fn1, rows1, [k \in {DayKey(0)} |-> [p50 |-> 6, p85 |-> 7]]),
                       Activation(fn2, rows2, null)>>
    /\ tables = moduleTables
    /\ data = <<>>
    /\ extractedPercentiles = null
    /\ perVehicleData = null
    /\ values = null
    /\ binCounts = <<>>
    /\ bins = <<>>
    /\ called = "none"
    /\ ret = null

\* invocation k runs one pass of its loop
LoopStep(k) ==
    /\ ~frames[k].done
    /\ frames[k].pc < Len(frames[k].rows)
    /\ frames' = [frames EXCEPT
                    ![k].locals = stepOf(frames[k].fn, ownLocals(frames, k),
                                         frames[k].rows[frames[k].pc + 1]),
                    ![k].pc = @ + 1]
    /\ UNCHANGED <<data, extractedPercentiles, perVehicleData, values, binCounts, bins,
                   called, ret, tables>>

\* invocation k leaves its loop and returns
ReturnResult(k) ==
    /\ ~frames[k].done
    /\ frames[k].pc = Len(frames[k].rows)
    /\ frames' = [frames EXCEPT
                    ![k].result = finishOf(frames[k].fn, ownLocals(frames, k),
                                           frames[k].rows, frames[k].ext),
                    ![k].done = TRUE]
    /\ UNCHANGED <<data, extractedPercentiles, perVehicleData, values, binCounts, bins,
                   called, ret, tables>>

NextInterleave == \E k \in 1..2 : LoopStep(k) \/ ReturnResult(k)

SpecInterleave == InitInterleave /\ [][NextInterleave]_vars

\* the result of the invocation run alone
Alone(f) ==
    CASE f.fn = "aggregateDaily" -> aggregateDaily(f.rows, f.ext)
      [] f.fn = "aggregateHourly" -> aggregateHourly(f.rows, f.ext)
      [] f.fn = "aggregateBy24Hour" -> aggregateBy24Hour(f.rows)
      [] f.fn = "calculateStats" -> calculateStats(f.rows, null, f.ext)
      [] OTHER -> calculateReportStatistics(f.rows, f.ext)

\* C22: however the steps of two invocations on different collections are
\* interleaved, each invocation returns the result it returns when run alone,
\* and the tables SPEED_BINS_8 and SPEED_BINS_12 are what they were.
C22_Independent ==
    /\ \A k \in 1..Len(frames) : frames[k].done => frames[k].result = Alone(frames[k])
    /\ tables = moduleTables

\* two invocations of the same function in progress together: the second has
\* returned its own result while the first is part-way through its loop
C22_Witness ==
    /\ Len(frames) = 2
    /\ frames[1].fn = frames[2].fn
    /\ frames[1].pc > 0 /\ frames[1].pc < Len(frames[1].rows) /\ ~frames[1].done
    /\ frames[2].done /\ Len(frames[2].rows) > 0
    /\ frames[2].result = Alone(frames[2])

(***************************************************************************)
(* Decimal readings: the double-precision arithmetic of JavaScript numbers *)
(***************************************************************************)
\* A natural number of any size is the sequence of its digits in base
\* 2^LimbBits, least significant first, without leading zeros. A positive
\* double is [m |-> digits, e |-> exponent] with a mantissa m of exactly
\* MantissaBits binary digits and the value m * 2^e; zero is
\* [m |-> <<>>, e |-> 0].
MantissaBits == 53

LimbBits == 14

Base == 2 ^ LimbBits

zero == [m |-> <<>>, e |-> 0]

limb(a, j) == IF j \in 1..Len(a) THEN a[j] ELSE 0

bigTrim(a) ==
    LET top == CHOOSE i \in 0..Len(a) :
                   (i = 0 \/ a[i] # 0) /\ \A j \in (i + 1)..Len(a) : a[j] = 0
    IN  SubSeq(a, 1, top)

bigOfInt(n) == bigTrim(<<n % Base, (n \div Base) % Base, n \div (Base * Base)>>)

\* the number of binary digits of a
bigLength(a) ==
    IF a = <<>> THEN 0
    ELSE (LimbBits * (Len(a) - 1))
         + (CHOOSE k \in 1..LimbBits : a[Len(a)] < (2 ^ k) /\ a[Len(a)] >= (2 ^ (k - 1)))

\* the binary digit i of a (digit 1 is the least significant)
bigBit(a, i) == (limb(a, ((i - 1) \div LimbBits) + 1) \div (2 ^ ((i - 1) % LimbBits))) % 2

bigAdd(a, b) ==
    LET n == IF Len(a) > Len(b) THEN Len(a) ELSE Len(b)
        g(j) == limb(a, j) + limb(b, j)
        carry(j) == IF \E i \in 1..(j - 1) :
                          g(i) >= Base /\ \A k \in (i + 1)..(j - 1) : g(k) = Base - 1
                    THEN 1 ELSE 0
    IN  bigTrim([j \in 1..(n + 1) |-> (g(j) + carry(j)) % Base])

\* a * 2^k
bigShiftLeft(a, k) ==
    LET w == k \div LimbBits
        s == k % LimbBits
    IN  bigTrim([j \in 1..(Len(a) + w + 1) |->
                    IF j <= w THEN 0
                    ELSE ((limb(a, j - w) * (2 ^ s)) % Base)
                         + (limb(a, j - w - 1) \div (2 ^ (LimbBits - s)))])

\* a \div 2^k
bigShiftRight(a, k) ==
    LET w == k \div LimbBits
        s == k % LimbBits
    IN  bigTrim([j \in 1..(Len(a) - w) |->
                    (limb(a, j + w) \div (2 ^ s))
                    + ((limb(a, j + w + 1) % (2 ^ s)) * (2 ^ (LimbBits - s)))])

\* the digits j..Len(a) of a times a whole number v, 0 <= v < Base, plus carry
RECURSIVE bigTimes(_, _, _, _)
bigTimes(a, v, j, carry) ==
    IF j > Len(a) THEN (IF carry = 0 THEN <<>> ELSE <<carry>>)
    ELSE LET t == (a[j] * v) + carry
         IN  <<t % Base>> \o bigTimes(a, v, j + 1, t \div Base)

\* long division of the digits j..Len(a) of a by a whole number d,
\* 0 < d < Base: the digits of the quotient and the remainder
RECURSIVE bigDivide(_, _, _)
bigDivide(a, d, j) ==
    IF j > Len(a) THEN [q |-> <<>>, r |-> 0]
    ELSE LET p == bigDivide(a, d, j + 1)
             t == (p.r * Base) + a[j]
         IN  [q |-> <<t \div d>> \o p.q, r |-> t % d]

\* a < b for two naturals of the same number of digits
bigLess(a, b) ==
    \E i \in 1..Len(a) : a[i] < b[i] /\ \A j \in (i + 1)..Len(a) : a[j] = b[j]

\* the double nearest to x * 2^e (plus a positive fraction of 2^e when
\* `more`), ties to the even mantissa (round-to-nearest-even of IEEE 754);
\* the exponent range is not limited
roundToDouble(x, e, more) ==
    LET length == bigLength(x)
        k == length - MantissaBits
        kept == bigShiftRight(x, k)
        half == bigBit(x, k) = 1
        rest == more \/ \E i \in 1..(k - 1) : bigBit(x, i) = 1
        up == half /\ (rest \/ bigBit(kept, 1) = 1)
        m == IF up THEN bigAdd(kept, <<1>>) ELSE kept
    IN  IF length = 0 THEN zero
        ELSE IF k <= 0 THEN [m |-> bigShiftLeft(x, 0 - k), e |-> e + k]
        ELSE IF bigLength(m) > MantissaBits
        THEN [m |-> bigShiftRight(m, 1), e |-> e + k + 1]
        ELSE [m |-> m, e |-> e + k]

\* a + b
doubleAdd(a, b) ==
    IF a.m = <<>> THEN b
    ELSE IF b.m = <<>> THEN a
    ELSE LET lo == IF a.e < b.e THEN a.e ELSE b.e
         IN  roundToDouble(bigAdd(bigShiftLeft(a.m, a.e - lo), bigShiftLeft(b.m, b.e - lo)),
                           lo, FALSE)

\* a * v for a whole number v, 0 <= v < Base
doubleTimes(a, v) == roundToDouble(bigTrim(bigTimes(a.m, v, 1, 0)), a.e, FALSE)

\* a / d for a whole number d, 0 < d < Base
doubleDivide(a, d) ==
    LET guard == bigLength(bigOfInt(d)) + 2
        n == bigDivide(bigShiftLeft(a.m, guard), d, 1)
    IN  roundToDouble(bigTrim(n.q), a.e - guard, n.r # 0)

\* a < b
doubleLess(a, b) ==
    IF a.m = <<>> \/ b.m = <<>> THEN b.m # <<>> /\ a.m = <<>>
    ELSE a.e < b.e \/ (a.e = b.e /\ bigLess(a.m, b.m))

\* csvParser.js lines 79 and 259, parseFloat(row.avg_speed) for the decimal
\* text of n / d (d a power of ten below Base): the nearest double
parseFloat(n, d) ==
    LET guard == MantissaBits + bigLength(bigOfInt(d)) + 2
        q == bigDivide(bigShiftLeft(bigOfInt(n), guard), d, 1)
    IN  roundToDouble(bigTrim(q.q), 0 - guard, q.r # 0)

(***************************************************************************)
(* aggregateDaily and aggregateHourly on records with decimal readings     *)
(***************************************************************************)
\* avg_speed and p85 of these records are doubles (parseFloat of the text of
\* the file); the other properties are whole numbers as before
MaxAddends == 3

\* the whole-number properties of a record
wholeFields(row) == [f \in DOMAIN row \ {"avg_speed", "p85"} |-> row[f]]

hasReading(row, f) == f \in DOMAIN row /\ row[f] # zero

\* lines 85-88: sum_speeds after the records 1..n of one bucket, each product
\* and each sum rounded to a double
RECURSIVE sumSpeeds(_, _)
sumSpeeds(rows, n) ==
    IF n = 0 THEN zero
    ELSE IF hasReading(rows[n], "avg_speed")
    THEN doubleAdd(sumSpeeds(rows, n - 1),
                   doubleTimes(rows[n].avg_speed, OrElse(rows[n], "vehicles", 1)))
    ELSE sumSpeeds(rows, n - 1)

\* line 26, values.reduce((acc, val) => acc + (val || 0), 0), on doubles
RECURSIVE sumOfDoubles(_, _)
sumOfDoubles(vals, n) ==
    IF n = 0 THEN zero ELSE doubleAdd(sumOfDoubles(vals, n - 1), vals[n])

\* lines 34-37 on doubles
averageOfDoubles(vals) ==
    IF Len(vals) = 0 THEN zero ELSE doubleDivide(sumOfDoubles(vals, Len(vals)), Len(vals))

\* lines 12-18 on doubles (the list is not empty)
percentileOfDoubles(vals) ==
    LET sorted == SortSeq(vals, LAMBDA a, b : doubleLess(a, b))
        index == Ceil85(Len(sorted)) - 1
    IN  sorted[Max2(0, index) + 1]

\* the records of rows that the loop adds to the accumulator of bucket b of
\* aggregator fn, in the order of the collection
bucketRows(fn, rows, b) ==
    SelectSeq(rows, LAMBDA row :
        /\ "datetime" \in DOMAIN row
        /\ IF fn = "aggregateDaily" THEN getDateKey(row.datetime) = b.date
           ELSE startOfHour(row.datetime) = b.datetime)

\* lines 128-142 and 151 (267-281 and 290): the bucket b, computed from the
\* whole-number properties, with its avg_speed and p85 computed from the
\* readings: the p85 of the external map if it has one, else the mean of the
\* direct p85 readings, else the percentile of the avg_speed samples
decimalResult(fn, rows, b) ==
    LET own == bucketRows(fn, rows, b)
        direct == SelectSeq(own, LAMBDA row : hasReading(row, "p85"))
        samples == SelectSeq(own, LAMBDA row : hasReading(row, "avg_speed"))
    IN  [b EXCEPT
            !.avg_speed = IF b.vehicles > 0
                          THEN doubleDivide(sumSpeeds(own, Len(own)), b.vehicles)
                          ELSE null,
            !.p85 = IF b.p85 # null THEN b.p85
                    ELSE IF Len(direct) > 0
                    THEN averageOfDoubles([i \in 1..Len(direct) |-> direct[i].p85])
                    ELSE IF Len(samples) > 0
                    THEN percentileOfDoubles([i \in 1..Len(samples) |-> samples[i].avg_speed])
                    ELSE null]

aggregateDecimal(fn, rows, ext) ==
    LET whole == [i \in 1..Len(rows) |-> wholeFields(rows[i])]
        buckets == IF fn = "aggregateDaily" THEN aggregateDaily(whole, ext)
                   ELSE aggregateHourly(whole, ext)
    IN  [i \in 1..Len(buckets) |-> decimalResult(fn, rows, buckets[i])]

\* records of one hour of the first day and of the last day, with readings of
\* the file such as 27.3, 31.6 and 29.9
OrderRows ==
    LET early == DateAt(0, LastHour, 0)
        late == DateAt(0, LastHour, MaxMinute)
        last == DateAt(MaxDay, 0, 0)
    IN  {[datetime |-> early, vehicles |-> 1, violators |-> 1, peak_speed |-> 5,
          avg_speed |-> parseFloat(273, 10)],
         [datetime |-> late, vehicles |-> 1, peak_speed |-> 6,
          avg_speed |-> parseFloat(316, 10)],
         [datetime |-> early, vehicles |-> 1, avg_speed |-> parseFloat(299, 10),
          p85 |-> parseFloat(299, 10)],
         [datetime |-> late, vehicles |-> 1, p85 |-> parseFloat(273, 10)],
         [datetime |-> last, vehicles |-> 2, avg_speed |-> parseFloat(316, 10),
          p85 |-> parseFloat(316, 10)]}

InitOrder ==
    /\ data \in {s \in SeqsUpTo(OrderRows, MaxAddends) : Len(s) = MaxAddends}
    /\ extractedPercentiles \in {null, [k \in {DayKey(MaxDay)} |-> [p50 |-> 6, p85 |-> 7]]}
    /\ perVehicleData = null
    /\ values = null
    /\ binCounts = <<>>
    /\ bins = <<>>
    /\ called = "none"
    /\ ret = null
    /\ frames = <<>>
    /\ tables = moduleTables

\* a call of aggregator fn on the same records in another order: i = 0 keeps
\* the order, another i exchanges the neighbours i and i + 1 (every
\* permutation is reached by such exchanges)
Reordered(fn) ==
    /\ called \in {"none", fn}
    /\ \E i \in 0..(Len(data) - 1) :
         data' = IF i = 0 THEN data ELSE Swap(data, i, i + 1)
    /\ ret' = aggregateDecimal(fn, data', extractedPercentiles)
    /\ called' = fn
    /\ UNCHANGED <<extractedPercentiles, perVehicleData, values, binCounts, bins,
                   frames, tables>>

NextOrder == Reordered("aggregateDaily") \/ Reordered("aggregateHourly")

SpecOrder == InitOrder /\ [][NextOrder]_vars

(***************************************************************************)
(* Claims about the order of the records                                   *)
(***************************************************************************)
\* C25 as claimed: a call on the same records in another order returns the
\* same list: the same buckets in the same order with the same vehicles,
\* violators, avg_speed, peak_speed and p85.
C25_AsClaimed ==
    [][called' = called => ret' = ret]_vars

\* the double after a, and the j-th double after a
doubleNext(a) ==
    LET m == bigAdd(a.m, <<1>>)
    IN  IF bigLength(m) > MantissaBits THEN [m |-> bigShiftRight(m, 1), e |-> a.e + 1]
        ELSE [m |-> m, e |-> a.e]

RECURSIVE doubleAfter(_, _)
doubleAfter(a, j) == IF j = 0 THEN a ELSE doubleNext(doubleAfter(a, j - 1))

\* a and b are at most k doubles apart
Near(a, b, k) == \E j \in 0..k : doubleAfter(a, j) = b \/ doubleAfter(b, j) = a

\* the bucket without its two values computed from readings
WholePart(b) == [f \in DOMAIN b \ {"avg_speed", "p85"} |-> b[f]]

\* the buckets b and c of two calls agree but for the rounding of a sum of
\* three or more readings
SameUpToRounding(b, c) ==
    LET own == bucketRows(called, data, b)
        direct == SelectSeq(own, LAMBDA row : hasReading(row, "p85"))
        samples == SelectSeq(own, LAMBDA row : hasReading(row, "avg_speed"))
    IN  /\ WholePart(b) = WholePart(c)
        /\ b.vehicles > 0 =>
              \/ b.avg_speed = c.avg_speed
              \/ Len(samples) > 2 /\ Near(b.avg_speed, c.avg_speed, 2 * Len(samples))
        /\ \/ b.p85 = c.p85
           \/ /\ Len(direct) > 2
              /\ ~HasExternalP85(b)
              /\ Near(b.p85, c.p85, 2 * Len(direct))

\* C25 (amended): a call on the same records in another order returns the
\* same buckets in the same order (the same keys and gap-filled range) with
\* the same vehicles, violators and peak_speed; avg_speed is the same when the
\* bucket has at most two records with an average speed, and p85 is the same
\* when it is taken from the external map, from the avg_speed samples or from
\* at most two direct readings; a sum of three or more readings is rounded in
\* the order of the records, so those two values can differ in their last
\* digits (by at most two doubles for each reading).
C25_UpToRounding ==
    [][called' = called =>
          /\ Len(ret') = Len(ret)
          /\ \A i \in 1..Len(ret) : SameUpToRounding(ret[i], ret'[i])]_vars

\* aggregateDaily has returned a bucket of three records with readings, and
\* the same records with the last two exchanged give another avg_speed for the
\* same vehicles
C25_Witness ==
    /\ called = "aggregateDaily"
    /\ Len(data) > 2
    /\ ret[1].vehicles > 2
    /\ LET other == aggregateDecimal(called, Swap(data, 2, 3), extractedPercentiles)
       IN  /\ other[1].avg_speed # ret[1].avg_speed
           /\ WholePart(other[1]) = WholePart(ret[1])

=============================================================================
